---- MODULE Spec2Model ----
(***************************************************************************)
(* Model of the Ilam Miner Detector core.                                  *)
(*                                                                         *)
(* Part 1: geolocation (ilam_miner_detector/geolocation.py) with its       *)
(* token-bucket RateLimiter and the SQLite geolocation cache               *)
(* (ilam_miner_detector/database.py).                                      *)
(*                                                                         *)
(* Part 2: the network scanner (ilam_miner_detector/network_scanner.py)    *)
(* driven by ScanWorker (ilam_miner_detector/worker.py): the asyncio tasks *)
(* of scan_range, one per host, and the thread that calls cancel().        *)
(*                                                                         *)
(* Part 3: the detection rules engine                                      *)
(* (ilam_miner_detector/detection_rules.py): evaluate() over a rule list   *)
(* whose rules can be enabled and disabled.  Confidence scores are in      *)
(* hundredths; banners and patterns are short sequences of characters.     *)
(*                                                                         *)
(* Part 4: calculate_overall_confidence on its own (SpecConfidence), the   *)
(* result loop of the scan command with the scanner's port heuristic       *)
(* (ilam_miner_detector/main_extended.py, SpecCli), the IPManager          *)
(* (ilam_miner_detector/ip_manager.py, SpecAddr) and import_rules          *)
(* (SpecImport).  A float is a fraction [num, den]; an IPv4 address is its *)
(* 32-bit integer, and the model uses addresses below 128.0.0.0.           *)
(*                                                                         *)
(* Time is one integer clock `now` (UTC).  Token counts are floats in the  *)
(* source; here a bucket holds `tokens` in units of 1/Window of a token,   *)
(* so that tokens + elapsed * capacity / window is exact:                  *)
(*     tokens_model = tokens_source * Window.                              *)
(***************************************************************************)
EXTENDS Integers, Sequences, FiniteSets, TLC

\* ---------------------------------------------------------------- bounds
\* lookups started in one run, over all threads
MaxLookups == 2
\* last reading of the clock
MaxTime == 3
\* RateLimiter(max_requests, time_window): scaled-down capacity and window
Capacity == 1
Window == 2
\* geolocation.cache_ttl_hours, in clock ticks
CacheTtl == 2
\* largest difference between local wall-clock time and UTC, in clock ticks
MaxTz == 2
\* addresses handed to one scan_range call
NumHosts == 2
\* config.scan.concurrency, scaled down
Concurrency == 1
\* a per-host limit on simultaneous port probes, as small as a limit can be
PerHostLimit == 1
\* calls of DetectionRulesEngine.evaluate in one run
MaxEvals == 1
\* longest match list handed to calculate_overall_confidence on its own
MaxMatches == 3
\* hosts in the result list of one command-line scan
MaxResults == 2
\* items in the comma-separated list handed to parse_ip_list
MaxItems == 2
\* calls of DetectionRulesEngine.import_rules in one run
MaxImports == 2

\* the calling threads, and the GeolocationService objects they can construct
Threads == {1, 2}
Services == {1, 2}

Min(a, b) == IF a <= b THEN a ELSE b

\* ------------------------------------------------------------ addresses
LocalIPs == {"127.0.0.1", "localhost", "0.0.0.0"}
PublicIPs == {"8.8.8.8"}
IPs == {"127.0.0.1"} \cup PublicIPs

\* ------------------------------------------------- IlamRegionConfig (x10)
MinLatitude == 325
MaxLatitude == 335
MinLongitude == 460
MaxLongitude == 475

\* GeolocationService._check_ilam_region
CheckIlamRegion(lat, lon) ==
    /\ MinLatitude <= lat /\ lat <= MaxLatitude
    /\ MinLongitude <= lon /\ lon <= MaxLongitude

\* GeolocationResult(ip_address=ip): the dataclass defaults
EmptyResult(ip) ==
    [ip_address |-> ip, country |-> "", country_code |-> "", region |-> "",
     city |-> "", latitude |-> 0, longitude |-> 0, isp |-> "", org |-> "",
     is_in_ilam |-> FALSE, success |-> FALSE, error |-> ""]

\* ---------------------------------------------- provider payloads (JSON)
\* ip-api.com: status/country/countryCode/regionName/city/lat/lon/isp/org
PrimaryData ==
    { [country |-> "Iran", countryCode |-> "IR", regionName |-> "Ilam",
       city |-> "Ilam", lat |-> 336, lon |-> 464, isp |-> "TCI", org |-> "TIC"],
      [country |-> "Iran", countryCode |-> "IR", regionName |-> "Ilam",
       city |-> "Mehran", lat |-> 331, lon |-> 462, isp |-> "TCI", org |-> ""] }

\* ipinfo.io: country/region/city/org/loc; loc is the text "lat,lon" (here
\* already split at the comma), absent, or junk
FallbackData ==
    { [country |-> "IR", region |-> "Ilam", city |-> "Ilam", org |-> "AS1 TIC",
       loc |-> <<"33.3", "46.4">>],
      [country |-> "IR", region |-> "Tehran", city |-> "Tehran", org |-> "AS2",
       loc |-> <<>>],
      [country |-> "IR", region |-> "Ilam", city |-> "Ilam", org |-> "AS1 TIC",
       loc |-> <<"33.3", "y">>] }

\* float(text), x10; float() raises ValueError on any other text
FloatOf == [x \in {"33.3", "46.4"} |-> IF x = "33.3" THEN 333 ELSE 464]
IsNumber(x) == x \in DOMAIN FloatOf

\* _lookup_ipapi on a 2xx answer with status == 'success'
NormalizeIpApi(ip, d) ==
    [ip_address |-> ip, country |-> d.country, country_code |-> d.countryCode,
     region |-> d.regionName, city |-> d.city, latitude |-> d.lat,
     longitude |-> d.lon, isp |-> d.isp, org |-> d.org,
     is_in_ilam |-> CheckIlamRegion(d.lat, d.lon), success |-> TRUE, error |-> ""]

\* _lookup_ipinfo on a 2xx answer: the fields are copied, then loc is parsed
\* (latitude first); a ValueError from float() is caught as "Parse error" and
\* success stays False
NormalizeIpInfo(ip, d) ==
    LET base == [EmptyResult(ip) EXCEPT !.country = d.country,
                     !.country_code = d.country, !.region = d.region,
                     !.city = d.city, !.isp = d.org, !.org = d.org]
    IN  IF Len(d.loc) = 2
        THEN IF ~IsNumber(d.loc[1])
             THEN [base EXCEPT !.error = "Parse error"]
             ELSE IF ~IsNumber(d.loc[2])
                  THEN [base EXCEPT !.latitude = FloatOf[d.loc[1]],
                            !.error = "Parse error"]
                  ELSE [base EXCEPT !.latitude = FloatOf[d.loc[1]],
                            !.longitude = FloatOf[d.loc[2]],
                            !.is_in_ilam = CheckIlamRegion(FloatOf[d.loc[1]],
                                                           FloatOf[d.loc[2]]),
                            !.success = TRUE]
        ELSE [base EXCEPT !.success = TRUE]

\* ------------------------------------------------ GeolocationCache (row)
NoEntry == [present |-> FALSE]

\* GeolocationService._cache_result builds the row; save_geolocation stamps
\* cached_at with SQLite CURRENT_TIMESTAMP, which is UTC
CacheEntry(r, ttl, utcNow) ==
    [present |-> TRUE, country |-> r.country, country_code |-> r.country_code,
     region |-> r.region, city |-> r.city, latitude |-> r.latitude,
     longitude |-> r.longitude, isp |-> r.isp, org |-> r.org,
     cached_at |-> utcNow, ttl_hours |-> ttl]

\* a read that returns the row without looking at its age
IsExpiredNever(e, localNow) == FALSE

\* GeolocationCache.is_expired: datetime.now() > cached_at + ttl_hours, where
\* datetime.now() is the naive LOCAL wall-clock time
IsExpired(e, localNow) == localNow > e.cached_at + e.ttl_hours

\* datetime.now(): local time = UTC + the zone's offset
LocalNow(utcNow, tzOffset) == utcNow + tzOffset

\* DatabaseManager.get_geolocation: the row, unless absent or expired
GetGeolocation(cch, ip, localNow) ==
    IF cch[ip].present /\ ~IsExpired(cch[ip], localNow) THEN cch[ip] ELSE NoEntry

\* GeolocationService._cache_to_result
CacheToResult(ip, e) ==
    [ip_address |-> ip, country |-> e.country, country_code |-> e.country_code,
     region |-> e.region, city |-> e.city, latitude |-> e.latitude,
     longitude |-> e.longitude, isp |-> e.isp, org |-> e.org,
     is_in_ilam |-> CheckIlamRegion(e.latitude, e.longitude),
     success |-> TRUE, error |-> ""]

\* ------------------------------------------------------------ RateLimiter
\* RateLimiter.__init__
NewLimiter(t0) == [tokens |-> Capacity * Window, last_update |-> t0, lock |-> 0]

\* a refill that forgets the cap
RefillUncapped(tokens, elapsed) == tokens + elapsed * Capacity

\* the refill of acquire(): min(max_requests, tokens + elapsed*max_requests/window)
Refill(tokens, elapsed) == Min(Capacity * Window, tokens + elapsed * Capacity)

\* `if self.tokens >= 1`
HasToken(tokens) == tokens >= Window

\* `self.tokens -= 1`
TakeToken(tokens) == tokens - Window

\* get_wait_time(): (1 - tokens) * window / max_requests seconds, here in
\* units of 1/Capacity of a clock tick
WaitTime(tokens) == IF HasToken(tokens) THEN 0 ELSE Window - tokens

\* an acquire() that does not wait for the mutex
LockIgnored(lim) == TRUE

\* `with self.lock`: the mutex can be taken when no thread holds it
LockFree(lim) == lim.lock = 0

\* ------------------------------------------------------------------ state
VARIABLES
    now,        \* the wall clock, UTC
    cfg,        \* the loaded configuration: cache_enabled, ipinfo_token, tz
    nsvc,       \* number of GeolocationService objects constructed
    limiter,    \* limiter[s]: the RateLimiter of service s
    created,    \* created[s]: the time service s was constructed
    consumed,   \* consumed[s]: tokens taken from the bucket of s
    primaryQ,   \* primaryQ[s]: queries service s sent to ip-api.com
    fallbackQ,  \* queries sent to ipinfo.io
    cache,      \* the geolocation_cache table, by ip_address
    svc,        \* svc[t]: the service thread t holds (0: none yet)
    pc,         \* pc[t]: where thread t is inside lookup()
    lk,         \* lk[t]: the locals of the running lookup() of thread t
    res,        \* what the last lookup() that returned handed back, and to whom
    nlook       \* lookups started so far

geoVars == <<now, cfg, nsvc, limiter, created, consumed, primaryQ, fallbackQ,
             cache, svc, pc, lk, res, nlook>>

\* ----------------------------------------------- state of the scanner part
VARIABLES
    ports,            \* the `ports` argument of scan_range
    enable_ping,      \* config.scan.enable_ping
    cancelled,        \* NetworkScanner._cancelled
    worker_cancelled, \* ScanWorker._cancelled
    semaphore,        \* free slots of the asyncio.Semaphore of scan_range
    tasks,            \* tasks[h]: the scan_with_semaphore task of host h
    results,          \* the `results` list of scan_range
    scan_pc,          \* where the scan_range coroutine is
    worker_pc,        \* where ScanWorker.run is
    saved,            \* host records saved and emitted by _process_results
    scan_status       \* the status of the scan record in the database

scanVars == <<ports, enable_ping, cancelled, worker_cancelled, semaphore,
              tasks, results, scan_pc, worker_pc, saved, scan_status>>

\* ------------------------------------------ state of the rules engine part
VARIABLES
    rules,        \* DetectionRulesEngine.rules, in the order of the rule file
    scan_result,  \* the scan result handed to the last evaluate()
    matches,      \* what the last evaluate() returned
    nevals        \* evaluate() calls so far

ruleVars == <<rules, scan_result, matches, nevals>>

\* -------------------------- state of calculate_overall_confidence on its own
VARIABLES
    conf_matches, \* the confidences of the match list of the last call
    overall       \* what the last call returned, as a fraction num / den

confVars == <<conf_matches, overall>>

\* ------------------------------------------ state of cli_scan (the scan command)
VARIABLES
    miner_ports,        \* config.miner_ports
    miners,             \* the loop's counter `miners`
    hosts_db,           \* the rows of table hosts of this scan
    scan_record,        \* the row of table scans of this scan
    result,             \* the HostScanResult the loop handled last
    rule_matches,       \* rules_engine.evaluate(result) of that host
    overall_confidence, \* calculate_overall_confidence(rule_matches)
    nresults            \* results handled so far

cliVars == <<miner_ports, miners, hosts_db, scan_record, result,
             rule_matches, overall_confidence, nresults>>

\* ------------------------------------------------------- state of IPManager
VARIABLES
    exclude_private,   \* IPManager._exclude_private
    excluded_networks, \* IPManager._excluded_networks
    addr_call,         \* the last call: [op, input], input a list of strings
    addr_out,          \* its outcome: [raised, named, value]
    generator          \* "none", "created" (no line run yet) or "exhausted"

addrVars == <<exclude_private, excluded_networks, addr_call, addr_out,
              generator>>

\* --------------------------------- state of DetectionRulesEngine.import_rules
VARIABLES
    imported, \* the last call of import_rules: [doc, raised]
    nimports  \* calls of import_rules so far

importVars == <<imported, nimports>>

vars == <<geoVars, scanVars, ruleVars, confVars, cliVars, addrVars,
          importVars>>

\* the float n / d
Ratio(n, d) == [num |-> n, den |-> d]

\* calculate_overall_confidence not called so far
ConfidenceIdle ==
    /\ conf_matches = <<>>
    /\ overall = Ratio(0, 1)

\* a rules file as import_rules finds it: kind is "missing" (no such file),
\* "unparsable" (yaml.safe_load raises), "empty" (yaml.safe_load gives None)
\* or "mapping"; a mapping has the key 'rules' or not, and under it a list of
\* entries, each a mapping of rule fields or something else
Document(kind, has_rules, entries) ==
    [kind |-> kind, has_rules |-> has_rules, entries |-> entries]

\* import_rules not called so far
NoImport ==
    /\ imported = [doc |-> Document("none", FALSE, <<>>), raised |-> FALSE]
    /\ nimports = 0

\* nothing returned and nothing raised
NoOutcome == [raised |-> FALSE, named |-> <<>>, value |-> <<>>]

\* IPManager.__init__, no method called
IPManagerConstructed ==
    /\ exclude_private = FALSE
    /\ excluded_networks = {}
    /\ addr_call = [op |-> "none", input |-> <<>>]
    /\ addr_out = NoOutcome
    /\ generator = "none"

\* MinerPortsConfig: the port lists of a configuration
MinerPortsConfig(stratum, bitcoin, ethereum, generic) ==
    [stratum_ports |-> stratum, bitcoin_ports |-> bitcoin,
     ethereum_ports |-> ethereum, generic_ports |-> generic]

\* the defaults of MinerPortsConfig
DefaultMinerPorts ==
    MinerPortsConfig({3333, 4444, 4028, 7777, 14433, 14444}, {8332, 8333},
                     {8545, 30303}, {8080, 8081})

\* a configuration file that lists no bitcoin ports
NoBitcoinPorts ==
    MinerPortsConfig({3333, 4444, 4028, 7777, 14433, 14444}, {},
                     {8545, 30303}, {8080, 8081})

MinerPortConfigs == {DefaultMinerPorts, NoBitcoinPorts}

\* HostScanResult(ip_address = ip) with the open ports found
NewHostScanResult(sr) ==
    [open_ports |-> sr, is_miner_detected |-> FALSE, miner_type |-> "",
     confidence_score |-> Ratio(0, 1)]

\* db.create_scan: a new row of table scans
NewScanRecord == [status |-> "pending", miners_detected |-> 0]

\* no scan command running
CliIdle ==
    /\ miner_ports = DefaultMinerPorts
    /\ miners = 0
    /\ hosts_db = <<>>
    /\ scan_record = NewScanRecord
    /\ result = NewHostScanResult(<<>>)
    /\ rule_matches = <<>>
    /\ overall_confidence = Ratio(0, 1)
    /\ nresults = 0

\* the addresses of the scanned range, by their position in ip_list
Hosts == 1 .. NumHosts

\* config.miner_ports.all_ports (sorted), scaled down to two ports
DefaultPorts == <<3333, 4444>>

\* the port lists a caller can pass: all_ports, or the --ports option of the
\* command line in the order the user typed it
PortLists == {DefaultPorts, <<4444, 3333>>}

\* HostScanResult(ip_address=ip): the dataclass defaults
HostScanResult(ip) ==
    [ip_address |-> ip, is_responsive |-> FALSE, open_ports |-> <<>>,
     scan_error |-> ""]

\* a host of ip_list before scan_range made its task.  probes[i] is the
\* _check_port call of ports[i]; at_cancel remembers where the host was when
\* cancel() was first called ("none": not called so far)
NewTask(h) ==
    [st |-> "new", probes |-> <<>>, at_cancel |-> "none",
     result |-> HostScanResult(h)]

\* NetworkScanner.__init__ and ScanWorker.__init__
ScannerConstructed ==
    /\ cancelled = FALSE
    /\ worker_cancelled = FALSE
    /\ semaphore = Concurrency
    /\ tasks = [h \in Hosts |-> NewTask(h)]
    /\ results = <<>>
    /\ scan_pc = "idle"
    /\ worker_pc = "created"
    /\ saved = <<>>
    /\ scan_status = "pending"

IdleLk ==
    [ip |-> "", cache_read |-> "skipped", took |-> FALSE, primary |-> "none",
     last_err |-> "", sleep_from |-> 0, sleep_for |-> 0,
     result |-> EmptyResult("")]

NoRes == [via |-> "none", result |-> EmptyResult(""), last_err |-> ""]

TzOffsets == {0 - MaxTz, 0, MaxTz}

\* every configuration the program can be started with; the zone offset only
\* matters to the cache
Configs ==
    {c \in [cache_enabled : BOOLEAN, ipinfo_token : BOOLEAN, tz : TzOffsets] :
        c.cache_enabled \/ c.tz = 0}

\* ------------------------------------------------- detection rule files
\* a `conditions` mapping: `keys` are the keys present in the YAML mapping,
\* the other fields hold their values (unused when the key is absent)
NoConditions ==
    [keys |-> {}, ports |-> {}, min_ports |-> 0, max_ports |-> 0,
     banner_patterns |-> {}, port_combinations |-> {}, min_combinations |-> 0]

\* DetectionRule, with the defaults of _parse_rules: enabled True, priority
\* 50, confidence_score 0.5
Rule(name, conditions) ==
    [name |-> name, enabled |-> TRUE, priority |-> 50, confidence_score |-> 50,
     conditions |-> conditions]

\* DEFAULT_RULES_CONFIG, scaled down: six of its rules in the order of the
\* file, with their priorities and confidence scores, fewer ports and
\* two-letter patterns ("st" for "stratum", "cu" for "cuda")
DefaultRules ==
    << [Rule("stratum_pool_detection",
             [NoConditions EXCEPT !.keys = {"ports", "banner_patterns", "min_ports"},
                 !.ports = {3333, 4444}, !.banner_patterns = {<<"s", "t">>},
                 !.min_ports = 1])
          EXCEPT !.priority = 90, !.confidence_score = 85],
       [Rule("multiple_mining_ports",
             [NoConditions EXCEPT !.keys = {"port_combinations", "min_combinations"},
                 !.port_combinations = {{3333, 4444}, {8332, 4444}},
                 !.min_combinations = 1])
          EXCEPT !.priority = 75, !.confidence_score = 70],
       [Rule("web_mining_detection",
             [NoConditions EXCEPT !.keys = {"ports", "banner_patterns", "min_ports"},
                 !.ports = {80, 443}, !.banner_patterns = {<<"c", "o">>},
                 !.min_ports = 1])
          EXCEPT !.priority = 70, !.confidence_score = 65],
       [Rule("high_bandwidth_pattern",
             [NoConditions EXCEPT !.keys = {"bandwidth_threshold_mbps", "duration_minutes"}])
          EXCEPT !.priority = 60, !.confidence_score = 50],
       [Rule("gpu_miner_pattern",
             [NoConditions EXCEPT !.keys = {"banner_patterns"},
                 !.banner_patterns = {<<"c", "u">>}])
          EXCEPT !.priority = 75, !.confidence_score = 70],
       [Rule("suspicious_mining_port",
             [NoConditions EXCEPT !.keys = {"ports", "min_ports", "max_ports"},
                 !.ports = {3333, 8332}, !.min_ports = 1, !.max_ports = 1])
          EXCEPT !.priority = 50, !.confidence_score = 30] >>

\* a rule file of the user (config/detection_rules.yaml): thresholds above
\* one, a pattern in mixed case, a rule that relies on the defaults
CustomRules ==
    << Rule("pattern_in_caps",
            [NoConditions EXCEPT !.keys = {"banner_patterns"},
                !.banner_patterns = {<<"S", "t">>}]),
       [Rule("two_ports",
             [NoConditions EXCEPT !.keys = {"ports", "min_ports"},
                 !.ports = {3333, 4444, 8332}, !.min_ports = 2])
          EXCEPT !.priority = 75, !.confidence_score = 60],
       [Rule("two_combinations",
             [NoConditions EXCEPT !.keys = {"port_combinations", "min_combinations",
                                            "ports"},
                 !.ports = {8332},
                 !.port_combinations = {{3333, 4444}, {3333, 8332}},
                 !.min_combinations = 2])
          EXCEPT !.priority = 75, !.confidence_score = 40] >>

RuleFiles == {DefaultRules, CustomRules}

\* the scan results handed to evaluate(): open ports with their banners
ScanPorts == {3333, 4444, 8332}
Banners == {<<>>, <<"S", "T">>, <<"x", "c", "U">>}

OpenPortLists ==
    {<<>>} \cup
    { <<[port |-> a, banner |-> x]>> : a \in ScanPorts, x \in Banners } \cup
    { <<[port |-> a, banner |-> x], [port |-> b, banner |-> y]>> :
        a \in {3333}, b \in {4444, 8332}, x \in Banners, y \in Banners } \cup
    { <<[port |-> 4444, banner |-> x], [port |-> 8332, banner |-> <<>>]>> :
        x \in Banners } \cup
    { <<[port |-> 3333, banner |-> x], [port |-> 4444, banner |-> <<>>],
        [port |-> 8332, banner |-> y]>> : x \in Banners, y \in Banners } \cup
    { <<[port |-> 80, banner |-> x], [port |-> 443, banner |-> <<>>]>> :
        x \in Banners } \cup
    { <<[port |-> 80, banner |-> <<>>]>> }

\* no evaluate() so far
NoScan == <<>>

\* DetectionRulesEngine.__init__ with the rule file `file`
RulesLoaded(file) ==
    /\ rules = file
    /\ scan_result = NoScan
    /\ matches = <<>>
    /\ nevals = 0

Init ==
    /\ now = 0
    /\ cfg \in Configs
    /\ nsvc = 0
    /\ limiter = [s \in Services |-> NewLimiter(0)]
    /\ created = [s \in Services |-> 0]
    /\ consumed = [s \in Services |-> 0]
    /\ primaryQ = [s \in Services |-> 0]
    /\ fallbackQ = 0
    /\ cache = [ip \in IPs |-> NoEntry]
    /\ svc = [t \in Threads |-> 0]
    /\ pc = [t \in Threads |-> "start"]
    /\ lk = [t \in Threads |-> IdleLk]
    /\ res = NoRes
    /\ nlook = 0
    /\ ports = DefaultPorts
    /\ enable_ping = TRUE
    /\ ScannerConstructed
    /\ RulesLoaded(DefaultRules)
    /\ ConfidenceIdle
    /\ CliIdle
    /\ IPManagerConstructed
    /\ NoImport

\* ---------------------------------------------------------------- actions
\* the clock advances (never backwards)
Tick ==
    /\ now < MaxTime
    /\ now' = now + 1
    /\ UNCHANGED <<cfg, nsvc, limiter, created, consumed, primaryQ, fallbackQ,
                   cache, svc, pc, lk, res, nlook>>

\* get_geolocation_service(): every call constructs a GeolocationService,
\* and GeolocationService.__init__ constructs its own RateLimiter
GetGeolocationService(t) ==
    /\ pc[t] \in {"start", "idle"}
    /\ nsvc + 1 \in Services
    /\ nsvc' = nsvc + 1
    /\ limiter' = [limiter EXCEPT ![nsvc + 1] = NewLimiter(now)]
    /\ created' = [created EXCEPT ![nsvc + 1] = now]
    /\ svc' = [svc EXCEPT ![t] = nsvc + 1]
    /\ pc' = [pc EXCEPT ![t] = "idle"]
    /\ UNCHANGED <<now, cfg, consumed, primaryQ, fallbackQ, cache, lk, res, nlook>>

\* a thread takes up a GeolocationService object constructed earlier (its
\* own, or one another thread hands to it) and calls lookup() on that object
UseService(t, s) ==
    /\ pc[t] \in {"start", "idle"}
    /\ s <= nsvc
    /\ svc[t] # s
    /\ svc' = [svc EXCEPT ![t] = s]
    /\ pc' = [pc EXCEPT ![t] = "idle"]
    /\ UNCHANGED <<now, cfg, nsvc, limiter, created, consumed, primaryQ,
                   fallbackQ, cache, lk, res, nlook>>

\* a lookup() that knows no local address
IsLocalAddressNever(ip) == FALSE

\* `if ip_address in ['127.0.0.1', 'localhost', '0.0.0.0']:`
IsLocalAddress(ip) == ip \in LocalIPs

\* a lookup() that goes to the providers without reading the cache
CacheLookupNever(ip, use_cache) == NoEntry

\* `if use_cache and self.config.geolocation.cache_enabled:
\*      cached = self.db.get_geolocation(ip_address)`
CacheLookup(ip, use_cache) ==
    IF use_cache /\ cfg.cache_enabled
    THEN GetGeolocation(cache, ip, LocalNow(now, cfg.tz))
    ELSE NoEntry

\* how the cache read of a lookup that went on to the providers ended:
\* "skipped" (use_cache False or cache disabled), "miss" (no row) or
\* "expired" (a row that is_expired rejected)
CacheRead(ip, use_cache) ==
    IF ~(use_cache /\ cfg.cache_enabled) THEN "skipped"
    ELSE IF cache[ip].present THEN "expired" ELSE "miss"

\* what lookup() hands back, with the history of the call
Returned(via, l, r) ==
    [via |-> via, result |-> r, last_err |-> l.last_err]

\* lookup(), from its entry to the first point where it can block: the
\* local-address check and the cache read
LookupStart(t, ip, use_cache) ==
    /\ pc[t] = "idle"
    /\ nlook < MaxLookups
    /\ nlook' = nlook + 1
    /\ LET l0 == [IdleLk EXCEPT !.ip = ip, !.result = EmptyResult(ip)]
       IN  IF IsLocalAddress(ip)
           THEN /\ res' = (Returned("local", l0,
                             [l0.result EXCEPT !.error = "Cannot geolocate local IP"]))
                /\ UNCHANGED <<pc, lk>>
           ELSE LET cached == CacheLookup(ip, use_cache)
                IN  IF cached.present
                    THEN /\ res' = (Returned("cache", l0, CacheToResult(ip, cached)))
                         /\ UNCHANGED <<pc, lk>>
                    ELSE /\ pc' = [pc EXCEPT ![t] = "acquire"]
                         /\ lk' = [lk EXCEPT ![t] = [l0 EXCEPT !.cache_read =
                                      CacheRead(ip, use_cache)]]
                         /\ UNCHANGED res
    /\ UNCHANGED <<now, cfg, nsvc, limiter, created, consumed, primaryQ,
                   fallbackQ, cache, svc>>

\* RateLimiter.acquire(): `with self.lock:` entered
AcquireEnter(t) ==
    /\ pc[t] = "acquire"
    /\ LockFree(limiter[svc[t]])
    /\ limiter' = [limiter EXCEPT ![svc[t]].lock = t]
    /\ pc' = [pc EXCEPT ![t] = "acq_refill"]
    /\ UNCHANGED <<now, cfg, nsvc, created, consumed, primaryQ, fallbackQ,
                   cache, svc, lk, res, nlook>>

\* RateLimiter.acquire(): now = time.time(); the refill; last_update = now
AcquireRefill(t) ==
    /\ pc[t] = "acq_refill"
    /\ LET lim == limiter[svc[t]]
       IN  limiter' = [limiter EXCEPT ![svc[t]] =
              [lim EXCEPT !.tokens = Refill(lim.tokens, now - lim.last_update),
                          !.last_update = now]]
    /\ pc' = [pc EXCEPT ![t] = "acq_check"]
    /\ UNCHANGED <<now, cfg, nsvc, created, consumed, primaryQ, fallbackQ,
                   cache, svc, lk, res, nlook>>

\* RateLimiter.acquire(): `if self.tokens >= 1`; on False the with-block is
\* left and acquire() returns False
AcquireCheck(t) ==
    /\ pc[t] = "acq_check"
    /\ IF HasToken(limiter[svc[t]].tokens)
       THEN /\ pc' = [pc EXCEPT ![t] = "acq_take"]
            /\ UNCHANGED <<limiter, lk>>
       ELSE /\ pc' = [pc EXCEPT ![t] = "wait"]
            /\ limiter' = [limiter EXCEPT ![svc[t]].lock = 0]
            /\ UNCHANGED lk
    /\ UNCHANGED <<now, cfg, nsvc, created, consumed, primaryQ, fallbackQ,
                   cache, svc, res, nlook>>

\* RateLimiter.acquire(): `self.tokens -= 1; return True`, leaving the lock
AcquireTake(t) ==
    /\ pc[t] = "acq_take"
    /\ LET lim == limiter[svc[t]]
       IN  limiter' = [limiter EXCEPT ![svc[t]] =
              [lim EXCEPT !.tokens = TakeToken(lim.tokens), !.lock = 0]]
    /\ consumed' = [consumed EXCEPT ![svc[t]] = consumed[svc[t]] + 1]
    /\ lk' = [lk EXCEPT ![t].took = TRUE]
    /\ pc' = [pc EXCEPT ![t] = "primary"]
    /\ UNCHANGED <<now, cfg, nsvc, created, primaryQ, fallbackQ, cache, svc,
                   res, nlook>>

\* lookup(), acquire() returned False: wait_time = get_wait_time() (under the
\* lock, reading tokens), then time.sleep(wait_time) begins
GetWaitTime(t) ==
    /\ pc[t] = "wait"
    /\ LockFree(limiter[svc[t]])
    /\ lk' = [lk EXCEPT ![t].sleep_from = now,
                        ![t].sleep_for = WaitTime(limiter[svc[t]].tokens)]
    /\ pc' = [pc EXCEPT ![t] = "sleep"]
    /\ UNCHANGED <<now, cfg, nsvc, limiter, created, consumed, primaryQ,
                   fallbackQ, cache, svc, res, nlook>>

\* time.sleep(wait_time) is over once at least wait_time has passed; lookup()
\* then goes on to the primary provider
SleepOver(l) == (now - l.sleep_from) * Capacity >= l.sleep_for

Wake(t) ==
    /\ pc[t] = "sleep"
    /\ SleepOver(lk[t])
    /\ lk' = [lk EXCEPT ![t].sleep_from = 0, ![t].sleep_for = 0]
    /\ pc' = [pc EXCEPT ![t] = "primary"]
    /\ UNCHANGED <<now, cfg, nsvc, limiter, created, consumed, primaryQ,
                   fallbackQ, cache, svc, res, nlook>>

\* _cache_result + save_geolocation: INSERT OR REPLACE of the row, unless the
\* cache is disabled
CacheResult(cch, r) ==
    IF cfg.cache_enabled
    THEN [cch EXCEPT ![r.ip_address] = CacheEntry(r, CacheTtl, now)]
    ELSE cch

\* a lookup() that tries ipinfo.io whether or not a token is configured
FallbackAlways == TRUE

\* `if self.config.geolocation.ipinfo_token:`
FallbackAvailable == cfg.ipinfo_token

\* a lookup() that returns the failed result as the last provider left it
AllFailedKeepsError(r) == r

\* the last lines of lookup(): result.error = "All geolocation providers
\* failed"; return result
AllFailed(r) == [r EXCEPT !.error = "All geolocation providers failed"]

\* what _lookup_ipapi leaves in `result`, and the error the provider reported:
\*   "ok"        2xx, status == 'success'
\*   "status"    2xx, status != 'success': error = data['message']
\*   "request"   requests.RequestException: error = "Request failed: ..."
\*   "raise"     any other exception leaves _lookup_ipapi; lookup() logs it
\*               and keeps the result it had
PrimaryOutcomes == {"ok", "status", "request", "raise"}

PrimaryResult(l, kind, d) ==
    CASE kind = "ok" -> NormalizeIpApi(l.ip, d)
      [] kind = "status" -> [EmptyResult(l.ip) EXCEPT !.error = "invalid query"]
      [] kind = "request" -> [EmptyResult(l.ip) EXCEPT !.error = "Request failed"]
      [] OTHER -> l.result

PrimaryError(kind) ==
    CASE kind = "status" -> "invalid query"
      [] kind = "request" -> "Request failed"
      [] kind = "raise" -> "unexpected error"
      [] OTHER -> ""

\* lookup(): the query to ip-api.com and what follows it without blocking
QueryPrimary(t, kind, d) ==
    /\ pc[t] = "primary"
    /\ primaryQ' = [primaryQ EXCEPT ![svc[t]] = primaryQ[svc[t]] + 1]
    /\ LET r == PrimaryResult(lk[t], kind, d)
           l1 == [lk[t] EXCEPT !.result = r,
                      !.primary = IF r.success THEN "ok" ELSE "failed",
                      !.last_err = PrimaryError(kind)]
       IN  IF r.success
           THEN /\ cache' = CacheResult(cache, r)
                /\ res' = (Returned("primary", l1, r))
                /\ lk' = [lk EXCEPT ![t] = IdleLk]
                /\ pc' = [pc EXCEPT ![t] = "idle"]
           ELSE IF FallbackAvailable
                THEN /\ lk' = [lk EXCEPT ![t] = l1]
                     /\ pc' = [pc EXCEPT ![t] = "fallback"]
                     /\ UNCHANGED <<cache, res>>
                ELSE /\ res' = (Returned("failed", l1, AllFailed(r)))
                     /\ lk' = [lk EXCEPT ![t] = IdleLk]
                     /\ pc' = [pc EXCEPT ![t] = "idle"]
                     /\ UNCHANGED cache
    /\ UNCHANGED <<now, cfg, nsvc, limiter, created, consumed, fallbackQ, svc, nlook>>

\* what _lookup_ipinfo leaves in `result`:
\*   "ok"        2xx: the payload is normalized (float() may raise ValueError,
\*               caught as "Parse error: ...")
\*   "request"   requests.RequestException
\*   "raise"     any other exception leaves _lookup_ipinfo
FallbackOutcomes == {"ok", "request", "raise"}

FallbackResult(l, kind, d) ==
    CASE kind = "ok" -> NormalizeIpInfo(l.ip, d)
      [] kind = "request" -> [EmptyResult(l.ip) EXCEPT !.error = "Request failed"]
      [] OTHER -> l.result

FallbackError(kind, r) ==
    CASE kind = "ok" -> r.error
      [] kind = "request" -> "Request failed"
      [] OTHER -> "unexpected error"

\* lookup(): the query to ipinfo.io and the return
QueryFallback(t, kind, d) ==
    /\ pc[t] = "fallback"
    /\ fallbackQ' = fallbackQ + 1
    /\ LET r == FallbackResult(lk[t], kind, d)
           l1 == [lk[t] EXCEPT !.result = r, !.last_err = FallbackError(kind, r)]
       IN  IF r.success
           THEN /\ cache' = CacheResult(cache, r)
                /\ res' = (Returned("fallback", l1, r))
           ELSE /\ res' = (Returned("failed", l1, AllFailed(r)))
                /\ UNCHANGED cache
    /\ lk' = [lk EXCEPT ![t] = IdleLk]
    /\ pc' = [pc EXCEPT ![t] = "idle"]
    /\ UNCHANGED <<now, cfg, nsvc, limiter, created, consumed, primaryQ, svc, nlook>>

\* clean_cache() / clean_expired_geolocation(): the sweep, run by a caller;
\* datetime(cached_at, '+ttl hours') < datetime('now'), both UTC
SweptOut(e) == e.present /\ e.cached_at + e.ttl_hours < now

CleanCache ==
    /\ \E ip \in PublicIPs : SweptOut(cache[ip])
    /\ cache' = [ip \in IPs |-> IF SweptOut(cache[ip]) THEN NoEntry ELSE cache[ip]]
    /\ UNCHANGED <<now, cfg, nsvc, limiter, created, consumed, primaryQ,
                   fallbackQ, svc, pc, lk, res, nlook>>

\* a step of the geolocation part leaves the other parts as they are
GeoOnly == UNCHANGED <<scanVars, ruleVars, confVars, cliVars, addrVars, importVars>>

\* the thread of a caller that makes its lookups one after the other
\* (GeolocationWorker.run, lookup_batch)
Sequential == {1}

\* the geolocation pipeline with all of its configurations: one caller, which
\* constructs its service once and makes its lookups one after the other
Next ==
    \/ Tick /\ GeoOnly
    \/ CleanCache /\ GeoOnly
    \/ \E t \in Sequential : nsvc = 0 /\ GetGeolocationService(t) /\ GeoOnly
    \/ \E t \in Sequential, ip \in IPs, uc \in BOOLEAN : LookupStart(t, ip, uc) /\ GeoOnly
    \/ \E t \in Sequential : AcquireEnter(t) /\ GeoOnly
    \/ \E t \in Sequential : AcquireRefill(t) /\ GeoOnly
    \/ \E t \in Sequential : AcquireCheck(t) /\ GeoOnly
    \/ \E t \in Sequential : AcquireTake(t) /\ GeoOnly
    \/ \E t \in Sequential : GetWaitTime(t) /\ GeoOnly
    \/ \E t \in Sequential : Wake(t) /\ GeoOnly
    \/ \E t \in Sequential, k \in PrimaryOutcomes, d \in PrimaryData : QueryPrimary(t, k, d) /\ GeoOnly
    \/ \E t \in Sequential, k \in FallbackOutcomes, d \in FallbackData : QueryFallback(t, k, d) /\ GeoOnly

Spec == Init /\ [][Next]_vars

\* concurrent callers racing on the RateLimiter: lookups of any thread at any
\* time, with the cache disabled and no fallback token, so that every
\* lookup of a public address goes through acquire()
InitLimiter ==
    /\ Init
    /\ cfg = [cache_enabled |-> FALSE, ipinfo_token |-> FALSE, tz |-> 0]

NextLimiter ==
    \/ Tick /\ GeoOnly
    \/ \E t \in Threads : GetGeolocationService(t) /\ GeoOnly
    \/ \E t \in Threads, s \in Services : UseService(t, s) /\ GeoOnly
    \/ \E t \in Threads, ip \in IPs, uc \in BOOLEAN : LookupStart(t, ip, uc) /\ GeoOnly
    \/ \E t \in Threads : AcquireEnter(t) /\ GeoOnly
    \/ \E t \in Threads : AcquireRefill(t) /\ GeoOnly
    \/ \E t \in Threads : AcquireCheck(t) /\ GeoOnly
    \/ \E t \in Threads : AcquireTake(t) /\ GeoOnly
    \/ \E t \in Threads : GetWaitTime(t) /\ GeoOnly
    \/ \E t \in Threads : Wake(t) /\ GeoOnly
    \/ \E t \in Threads, k \in PrimaryOutcomes, d \in PrimaryData : QueryPrimary(t, k, d) /\ GeoOnly

SpecLimiter == InitLimiter /\ [][NextLimiter]_vars

\* ====================================================================
\* The network scanner: NetworkScanner.scan_range / scan_host and the
\* ScanWorker thread that runs them
\* ====================================================================

\* a step of the scanner part leaves the other parts as they are
ScanOnly == UNCHANGED <<geoVars, ruleVars, confVars, cliVars, addrVars, importVars>>

\* where a host is when cancel() is called: not started ("pending"), inside
\* scan_host ("running"), or its task is over ("finished")
AtCancel(st) ==
    CASE st \in {"new", "waiting"} -> "pending"
      [] st \in {"ping", "ports"} -> "running"
      [] OTHER -> "finished"

\* ScanWorker.cancel(), called by the GUI thread at any time:
\* self._cancelled = True; self.scanner.cancel()
Cancel ==
    /\ worker_pc # "done"
    /\ ~(cancelled /\ worker_cancelled)
    /\ worker_cancelled' = TRUE
    /\ cancelled' = TRUE
    /\ tasks' = [h \in Hosts |->
                   IF tasks[h].at_cancel = "none"
                   THEN [tasks[h] EXCEPT !.at_cancel = AtCancel(tasks[h].st)]
                   ELSE tasks[h]]
    /\ UNCHANGED <<ports, enable_ping, semaphore, results, scan_pc, worker_pc,
                   saved, scan_status>>

\* ScanWorker.run(), up to the call of scan_range: the scan record is set to
\* "running", the range is parsed, the ports are read from the configuration
WorkerRun ==
    /\ worker_pc = "created"
    /\ worker_pc' = "scanning"
    /\ scan_status' = "running"
    /\ UNCHANGED <<ports, enable_ping, cancelled, worker_cancelled, semaphore,
                   tasks, results, scan_pc, saved>>

\* scan_range(), from its entry to the for loop: self._cancelled = False,
\* the semaphore, one scan_with_semaphore task per address
ScanRange ==
    /\ worker_pc = "scanning"
    /\ scan_pc = "idle"
    /\ cancelled' = FALSE
    /\ semaphore' = Concurrency
    /\ tasks' = [h \in Hosts |-> [tasks[h] EXCEPT !.st = "waiting"]]
    /\ results' = <<>>
    /\ scan_pc' = "top"
    /\ UNCHANGED <<ports, enable_ping, worker_cancelled, worker_pc, saved,
                   scan_status>>

\* a semaphore that lets every task in
SlotAlways == TRUE

\* asyncio.Semaphore: a task enters `async with semaphore:` when a slot is free
SlotFree == semaphore > 0

\* _scan_ports: tasks = [self._check_port(ip, port) for port in ports] handed
\* to asyncio.gather, all of them at once
GatherProbes == [i \in 1 .. Len(ports) |-> "inflight"]

\* scan_with_semaphore(ip), from the semaphore to the first await of
\* scan_host: the slot is taken; a cancelled scanner answers with a
\* placeholder result and gives the slot back at once
ScanWithSemaphore(h) ==
    /\ scan_pc = "await"
    /\ tasks[h].st = "waiting"
    /\ SlotFree
    /\ IF cancelled
       THEN /\ tasks' = [tasks EXCEPT ![h].st = "done",
                            ![h].result = [HostScanResult(h) EXCEPT
                                              !.scan_error = "Cancelled"]]
            /\ UNCHANGED semaphore
       ELSE /\ semaphore' = semaphore - 1
            /\ IF enable_ping
               THEN tasks' = [tasks EXCEPT ![h].st = "ping"]
               ELSE tasks' = [tasks EXCEPT ![h].st = "ports",
                                           ![h].probes = GatherProbes]
    /\ UNCHANGED <<ports, enable_ping, cancelled, worker_cancelled, results,
                   scan_pc, worker_pc, saved, scan_status>>

\* scan_host: _ping_host returned (a time or None); _scan_ports starts
PingHost(h, ok) ==
    /\ scan_pc = "await"
    /\ tasks[h].st = "ping"
    /\ tasks' = [tasks EXCEPT ![h].st = "ports",
                              ![h].result.is_responsive = ok,
                              ![h].probes = GatherProbes]
    /\ UNCHANGED <<ports, enable_ping, cancelled, worker_cancelled, semaphore,
                   results, scan_pc, worker_pc, saved, scan_status>>

\* what one _check_port call hands to gather: a PortScanResult with is_open
\* True or False, or (return_exceptions=True) an exception
ProbeOutcomes == {"open", "closed", "error"}

\* _check_port(ip, ports[i]) is over; _scan_ports skips an exception as it
\* skips a closed port, so the two are kept as one
CheckPort(h, i, outcome) ==
    /\ scan_pc = "await"
    /\ tasks[h].st = "ports"
    /\ i \in 1 .. Len(tasks[h].probes)
    /\ tasks[h].probes[i] = "inflight"
    /\ tasks' = [tasks EXCEPT ![h].probes[i] =
                    IF outcome = "open" THEN "open" ELSE "closed"]
    /\ UNCHANGED <<ports, enable_ping, cancelled, worker_cancelled, semaphore,
                   results, scan_pc, worker_pc, saved, scan_status>>

\* _scan_ports, after gather: `for port, result in zip(ports, results)`
\* keeps the results that are no exception and are open, in the order of
\* `ports`
RECURSIVE PortResults(_, _)
PortResults(portSeq, probes) ==
    IF portSeq = <<>> THEN <<>>
    ELSE IF Head(probes) = "open"
         THEN <<Head(portSeq)>> \o PortResults(Tail(portSeq), Tail(probes))
         ELSE PortResults(Tail(portSeq), Tail(probes))

\* a scan_host whose exceptions leave it
CaughtNever(raised) == FALSE

\* scan_host: `except Exception as e: result.scan_error = str(e)`
Caught(raised) == raised

\* what can happen inside the try block of scan_host once the probes are
\* over: nothing, or an exception raised before result.open_ports is assigned
HostFailures == {"none", "scan_ports"}

\* scan_host, from the return of gather to its own return, and the release
\* of the slot by `async with`
ScanHost(h, fail) ==
    /\ scan_pc = "await"
    /\ tasks[h].st = "ports"
    /\ \A i \in 1 .. Len(tasks[h].probes) : tasks[h].probes[i] # "inflight"
    /\ semaphore' = semaphore + 1
    /\ LET open == IF fail = "scan_ports" THEN <<>>
                   ELSE PortResults(ports, tasks[h].probes)
           r == [tasks[h].result EXCEPT !.open_ports = open,
                    !.scan_error = IF fail = "none" THEN "" ELSE "error"]
       IN  IF fail = "none" \/ Caught(fail # "none")
           THEN tasks' = [tasks EXCEPT ![h].st = "done", ![h].result = r,
                                       ![h].probes = <<>>]
           ELSE tasks' = [tasks EXCEPT ![h].st = "raised", ![h].probes = <<>>]
    /\ UNCHANGED <<ports, enable_ping, cancelled, worker_cancelled, results,
                   scan_pc, worker_pc, saved, scan_status>>

\* scan_range: the head of `for coro in asyncio.as_completed(tasks):` and
\* `if self._cancelled: break`; after the loop, `return results`
ForLoop ==
    /\ scan_pc = "top"
    /\ scan_pc' = IF cancelled \/ Len(results) = NumHosts
                  THEN "returned" ELSE "await"
    /\ UNCHANGED <<ports, enable_ping, cancelled, worker_cancelled, semaphore,
                   tasks, results, worker_pc, saved, scan_status>>

\* scan_range: `result = await coro; results.append(result)` with the next
\* task that is over; an exception of the task leaves scan_range
AwaitCoro(h) ==
    /\ scan_pc = "await"
    /\ tasks[h].st \in {"done", "raised"}
    /\ IF tasks[h].st = "done"
       THEN /\ results' = Append(results, tasks[h].result)
            /\ tasks' = [tasks EXCEPT ![h].st = "consumed"]
            /\ scan_pc' = "top"
       ELSE /\ scan_pc' = "raised"
            /\ UNCHANGED <<results, tasks>>
    /\ UNCHANGED <<ports, enable_ping, cancelled, worker_cancelled, semaphore,
                   worker_pc, saved, scan_status>>

\* ScanWorker.run(), after run_until_complete and loop.close(): a cancelled
\* worker marks the scan "cancelled" and returns; an exception marks it
\* "error"; otherwise the results are processed
AfterScan ==
    /\ worker_pc = "scanning"
    /\ scan_pc \in {"returned", "raised"}
    /\ IF scan_pc = "raised"
       THEN /\ scan_status' = "error"
            /\ worker_pc' = "done"
       ELSE IF worker_cancelled
            THEN /\ scan_status' = "cancelled"
                 /\ worker_pc' = "done"
            ELSE /\ worker_pc' = "process"
                 /\ UNCHANGED scan_status
    /\ UNCHANGED <<ports, enable_ping, cancelled, worker_cancelled, semaphore,
                   tasks, results, scan_pc, saved>>

\* ScanWorker._process_results: one turn of `for result in results:` (break
\* when cancelled; else the host record is saved and host_scanned emitted),
\* and after the loop the status "completed"
ProcessResults ==
    /\ worker_pc = "process"
    /\ IF worker_cancelled \/ Len(saved) = Len(results)
       THEN /\ scan_status' = "completed"
            /\ worker_pc' = "done"
            /\ UNCHANGED saved
       ELSE /\ saved' = Append(saved, results[Len(saved) + 1])
            /\ UNCHANGED <<scan_status, worker_pc>>
    /\ UNCHANGED <<ports, enable_ping, cancelled, worker_cancelled, semaphore,
                   tasks, results, scan_pc>>

\* a scan: any port list and ping setting; the geolocation part stands still
InitScan ==
    /\ now = 0
    /\ cfg = [cache_enabled |-> FALSE, ipinfo_token |-> FALSE, tz |-> 0]
    /\ nsvc = 0
    /\ limiter = [s \in Services |-> NewLimiter(0)]
    /\ created = [s \in Services |-> 0]
    /\ consumed = [s \in Services |-> 0]
    /\ primaryQ = [s \in Services |-> 0]
    /\ fallbackQ = 0
    /\ cache = [ip \in IPs |-> NoEntry]
    /\ svc = [t \in Threads |-> 0]
    /\ pc = [t \in Threads |-> "start"]
    /\ lk = [t \in Threads |-> IdleLk]
    /\ res = NoRes
    /\ nlook = 0
    /\ ports \in PortLists
    /\ enable_ping \in BOOLEAN
    /\ ScannerConstructed
    /\ RulesLoaded(DefaultRules)
    /\ ConfidenceIdle
    /\ CliIdle
    /\ IPManagerConstructed
    /\ NoImport

NextScan ==
    \/ Cancel /\ ScanOnly
    \/ WorkerRun /\ ScanOnly
    \/ ScanRange /\ ScanOnly
    \/ ForLoop /\ ScanOnly
    \/ \E h \in Hosts : ScanWithSemaphore(h) /\ ScanOnly
    \/ \E h \in Hosts, ok \in BOOLEAN : PingHost(h, ok) /\ ScanOnly
    \/ \E h \in Hosts, i \in 1 .. 2, o \in ProbeOutcomes : CheckPort(h, i, o) /\ ScanOnly
    \/ \E h \in Hosts, f \in HostFailures : ScanHost(h, f) /\ ScanOnly
    \/ \E h \in Hosts : AwaitCoro(h) /\ ScanOnly
    \/ AfterScan /\ ScanOnly
    \/ ProcessResults /\ ScanOnly

SpecScan == InitScan /\ [][NextScan]_vars

\* ====================================================================
\* The detection rules engine: DetectionRulesEngine.evaluate
\* ====================================================================

\* a step of the rules engine leaves the other parts as they are
RulesOnly == UNCHANGED <<geoVars, scanVars, confVars, cliVars, addrVars, importVars>>

\* str.lower(), character by character
LowerOf(c) ==
    CASE c = "S" -> "s"
      [] c = "T" -> "t"
      [] c = "C" -> "c"
      [] c = "U" -> "u"
      [] OTHER -> c

\* a comparison that keeps the case of its operands
KeepCase(str) == str

LowerCase(str) == [i \in 1 .. Len(str) |-> LowerOf(str[i])]

\* `needle in hay` for strings
Contains(hay, needle) ==
    \E k \in 0 .. Len(hay) :
        /\ k + Len(needle) <= Len(hay)
        /\ \A i \in 1 .. Len(needle) : hay[k + i] = needle[i]

\* conditions.get(key, default)
Get(conditions, key, default) ==
    IF key \in conditions.keys THEN conditions[key] ELSE default

\* evaluate(): open_ports = [p.port for p in scan_result.open_ports]
OpenPorts(sr) == {sr[i].port : i \in 1 .. Len(sr)}

\* evaluate(): banners = {p.port: p.banner for p in scan_result.open_ports}
\* (a later entry of the same port replaces an earlier one)
BannersOf(sr) ==
    [q \in OpenPorts(sr) |->
        sr[CHOOSE i \in 1 .. Len(sr) :
              /\ sr[i].port = q
              /\ \A j \in 1 .. Len(sr) : sr[j].port = q => j <= i].banner]

\* _evaluate_rule: the `ports` condition
PortsMatch(c, open) ==
    /\ "ports" \in c.keys
    /\ LET matched_ports == c.ports \cap open
           min_ports == Get(c, "min_ports", 1)
           max_ports == Get(c, "max_ports", Cardinality(c.ports))
       IN  min_ports <= Cardinality(matched_ports)
             /\ Cardinality(matched_ports) <= max_ports

\* _evaluate_rule: the `banner_patterns` condition
BannerMatch(c, banners) ==
    /\ "banner_patterns" \in c.keys
    /\ \E q \in DOMAIN banners, pattern \in c.banner_patterns :
          Contains(LowerCase(banners[q]), LowerCase(pattern))

\* _evaluate_rule: the `port_combinations` condition
CombinationsMatch(c, open) ==
    /\ "port_combinations" \in c.keys
    /\ Cardinality({combo \in c.port_combinations : combo \subseteq open})
          >= Get(c, "min_combinations", 1)

\* _evaluate_rule: the RuleMatch of one rule (matched_conditions by its keys)
EvaluateRule(rule, open, banners) ==
    LET c == rule.conditions
        conds == (IF PortsMatch(c, open) THEN {"ports"} ELSE {})
                 \cup (IF BannerMatch(c, banners) THEN {"banner_patterns"} ELSE {})
                 \cup (IF CombinationsMatch(c, open) THEN {"port_combinations"} ELSE {})
        matched == conds # {}
    IN  [rule_name |-> rule.name,
         matched |-> matched,
         confidence |-> IF matched THEN rule.confidence_score ELSE 0,
         matched_conditions |-> conds]

\* sorted(..., key=lambda r: r.priority, reverse=True): a stable sort, so
\* rules of equal priority keep the order they have in the list
RECURSIVE InsertByPriority(_, _)
InsertByPriority(r, q) ==
    IF q = <<>> THEN <<r>>
    ELSE IF Head(q).priority <= r.priority THEN <<r>> \o q
         ELSE <<Head(q)>> \o InsertByPriority(r, Tail(q))

RECURSIVE SortedByPriority(_)
SortedByPriority(q) ==
    IF q = <<>> THEN <<>>
    ELSE InsertByPriority(Head(q), SortedByPriority(Tail(q)))

\* [r for r in self.rules if r.enabled]
IsEnabled(r) == r.enabled

\* RuleMatch.matched
IsMatched(m) == m.matched

\* evaluate(scan_result): the matches of the enabled rules, in sorted order
EvaluateAll(ruleList, sr) ==
    LET sorted_rules == SortedByPriority(SelectSeq(ruleList, IsEnabled))
        all == [i \in 1 .. Len(sorted_rules) |->
                  EvaluateRule(sorted_rules[i], OpenPorts(sr), BannersOf(sr))]
    IN  SelectSeq(all, IsMatched)

Evaluate(sr) ==
    /\ nevals < MaxEvals
    /\ nevals' = nevals + 1
    /\ scan_result' = sr
    /\ matches' = EvaluateAll(rules, sr)
    /\ UNCHANGED rules

\* enable_rule(rule_name) / disable_rule(rule_name): the first rule of that
\* name gets enabled = on
SetEnabled(i, on) ==
    /\ i \in 1 .. Len(rules)
    /\ rules[i].enabled # on
    /\ rules' = [rules EXCEPT ![i].enabled = on]
    /\ UNCHANGED <<scan_result, matches, nevals>>

\* the rules engine with either rule file; the other parts stand still
InitRules ==
    /\ now = 0
    /\ cfg = [cache_enabled |-> FALSE, ipinfo_token |-> FALSE, tz |-> 0]
    /\ nsvc = 0
    /\ limiter = [s \in Services |-> NewLimiter(0)]
    /\ created = [s \in Services |-> 0]
    /\ consumed = [s \in Services |-> 0]
    /\ primaryQ = [s \in Services |-> 0]
    /\ fallbackQ = 0
    /\ cache = [ip \in IPs |-> NoEntry]
    /\ svc = [t \in Threads |-> 0]
    /\ pc = [t \in Threads |-> "start"]
    /\ lk = [t \in Threads |-> IdleLk]
    /\ res = NoRes
    /\ nlook = 0
    /\ ports = DefaultPorts
    /\ enable_ping = TRUE
    /\ ScannerConstructed
    /\ \E file \in RuleFiles : RulesLoaded(file)
    /\ ConfidenceIdle
    /\ CliIdle
    /\ IPManagerConstructed
    /\ NoImport

NextRules ==
    \/ \E sr \in OpenPortLists : Evaluate(sr) /\ RulesOnly
    \/ \E i \in 1 .. 6 : SetEnabled(i, FALSE) /\ RulesOnly
    \/ \E i \in 1 .. 6 : SetEnabled(i, TRUE) /\ RulesOnly

SpecRules == InitRules /\ [][NextRules]_vars

\* ====================================================================
\* DetectionRulesEngine.calculate_overall_confidence
\* ====================================================================

\* a step of calculate_overall_confidence leaves the other parts as they are
ConfidenceOnly == UNCHANGED <<geoVars, scanVars, ruleVars, cliVars, addrVars, importVars>>

RECURSIVE SumSeq(_)
SumSeq(q) == IF q = <<>> THEN 0 ELSE Head(q) + SumSeq(Tail(q))

\* a weight that counts every match alike
CountWeight(cs) == 100 * Len(cs)

\* `total_weight += weight` with weight = match.confidence (in hundredths)
TotalWeight(cs) == SumSeq(cs)

\* `weighted_sum += weight * match.confidence` (in ten-thousandths)
WeightedSum(cs) == SumSeq([i \in 1 .. Len(cs) |-> cs[i] * cs[i]])

\* min(overall, 1.0)
CapAtOne(r) == IF r.num > r.den THEN Ratio(1, 1) ELSE r

\* calculate_overall_confidence(matches), over the confidences of the
\* matches: 0.0 for no match and for a total weight of 0, else
\* weighted_sum / total_weight capped at 1.0
CalculateOverallConfidence(cs) ==
    IF Len(cs) = 0 THEN Ratio(0, 1)
    ELSE IF TotalWeight(cs) = 0 THEN Ratio(0, 1)
    ELSE CapAtOne(Ratio(WeightedSum(cs), 100 * TotalWeight(cs)))

\* the confidence scores a rule file can give (hundredths); 1.5 is a score
\* out of range that a file can carry
ConfidenceScores == {0, 30, 70, 100, 150}

RECURSIVE ListsUpTo(_, _)
ListsUpTo(S, n) ==
    IF n = 0 THEN {<<>>}
    ELSE LET shorter == ListsUpTo(S, n - 1)
         IN  shorter \cup {Append(q, x) : q \in shorter, x \in S}

\* the match lists handed to calculate_overall_confidence, by confidence
MatchLists == ListsUpTo(ConfidenceScores, MaxMatches)

CalculateConfidence(cs) ==
    /\ conf_matches' = cs
    /\ overall' = CalculateOverallConfidence(cs)

\* every part as constructed, the rules engine with its default rules
Constructed ==
    /\ now = 0
    /\ cfg = [cache_enabled |-> FALSE, ipinfo_token |-> FALSE, tz |-> 0]
    /\ nsvc = 0
    /\ limiter = [s \in Services |-> NewLimiter(0)]
    /\ created = [s \in Services |-> 0]
    /\ consumed = [s \in Services |-> 0]
    /\ primaryQ = [s \in Services |-> 0]
    /\ fallbackQ = 0
    /\ cache = [ip \in IPs |-> NoEntry]
    /\ svc = [t \in Threads |-> 0]
    /\ pc = [t \in Threads |-> "start"]
    /\ lk = [t \in Threads |-> IdleLk]
    /\ res = NoRes
    /\ nlook = 0
    /\ ports = DefaultPorts
    /\ enable_ping = TRUE
    /\ ScannerConstructed
    /\ RulesLoaded(DefaultRules)

InitConfidence ==
    /\ Constructed
    /\ ConfidenceIdle
    /\ CliIdle
    /\ IPManagerConstructed
    /\ NoImport

NextConfidence ==
    \E cs \in MatchLists : CalculateConfidence(cs) /\ ConfidenceOnly

SpecConfidence == InitConfidence /\ [][NextConfidence]_vars

\* ====================================================================
\* cli_scan: the result loop of the scan command, with the scanner's
\* _analyze_miner_detection that fills each result
\* ====================================================================

\* a step of the scan command leaves the other parts as they are
CliOnly == UNCHANGED <<geoVars, scanVars, ruleVars, confVars, addrVars, importVars>>

\* MinerPortsConfig.all_ports
AllPorts(mp) ==
    mp.stratum_ports \cup mp.bitcoin_ports \cup mp.ethereum_ports
        \cup mp.generic_ports

\* "/".join(miner_types)
RECURSIVE Join(_)
Join(types) ==
    IF types = <<>> THEN ""
    ELSE IF Len(types) = 1 THEN types[1]
    ELSE types[1] \o "/" \o Join(Tail(types))

\* the miner_types list of _analyze_miner_detection
MinerTypes(found, mp) ==
    (IF found \cap mp.stratum_ports # {} THEN <<"Stratum">> ELSE <<>>)
    \o (IF found \cap mp.bitcoin_ports # {} THEN <<"Bitcoin">> ELSE <<>>)
    \o (IF found \cap mp.ethereum_ports # {} THEN <<"Ethereum">> ELSE <<>>)

\* the banner words of _analyze_miner_detection ('stratum', ...), cut to the
\* length of the model's banners
MinerSignatures == {<<"s", "t">>}

\* the loop over result.open_ports that raises the confidence, from entry i
RECURSIVE BannerEvidence(_, _, _, _)
BannerEvidence(sr, i, confidence, mp) ==
    IF i > Len(sr) THEN confidence
    ELSE IF sr[i].port \in AllPorts(mp) /\ sr[i].banner # <<>>
    THEN LET c1 == Min(100, confidence + 20)
             c2 == IF \E sig \in MinerSignatures :
                          Contains(LowerCase(sr[i].banner), sig)
                   THEN Min(100, c1 + 15)
                   ELSE c1
         IN  BannerEvidence(sr, i + 1, c2, mp)
    ELSE BannerEvidence(sr, i + 1, confidence, mp)

\* NetworkScanner._analyze_miner_detection(result)
AnalyzeMinerDetection(r, mp) ==
    LET mining_ports_found == OpenPorts(r.open_ports) \cap AllPorts(mp)
        miner_types == MinerTypes(mining_ports_found, mp)
        confidence == Min(100, Cardinality(mining_ports_found) * 25 + 25)
    IN  IF r.open_ports = <<>> THEN r
        ELSE IF mining_ports_found = {} THEN r
        ELSE [r EXCEPT
                !.is_miner_detected = TRUE,
                !.miner_type = IF miner_types # <<>> THEN Join(miner_types)
                               ELSE "Unknown",
                !.confidence_score =
                    Ratio(BannerEvidence(r.open_ports, 1, confidence, mp), 1)]

\* a < b for floats
Less(a, b) == a.num * b.den < b.num * a.den

\* max(a, b) of Python: b only where it is greater
Max(a, b) == IF Less(a, b) THEN b ELSE a

\* the 0.5 of `overall_confidence >= 0.5`
Half == Ratio(1, 2)

\* [m.confidence for m in matches]
ConfidencesOf(ms) == [i \in 1 .. Len(ms) |-> ms[i].confidence]

\* the row cli_scan stores for a result
HostRecord(r) ==
    [open_ports |-> r.open_ports, is_miner_detected |-> r.is_miner_detected,
     miner_type |-> r.miner_type, confidence_score |-> r.confidence_score]

\* one round of `for result in results`, for a host the scanner found with
\* the open ports sr
CliResult(sr) ==
    /\ scan_record.status = "running"
    /\ nresults < MaxResults
    /\ LET scanned == AnalyzeMinerDetection(NewHostScanResult(sr), miner_ports)
           ms == EvaluateAll(rules, sr)
           oc == CalculateOverallConfidence(ConfidencesOf(ms))
           r == [scanned EXCEPT
                   !.confidence_score = Max(scanned.confidence_score, oc)]
       IN  /\ rule_matches' = ms
           /\ overall_confidence' = oc
           /\ result' = r
           /\ miners' = IF r.is_miner_detected \/ ~Less(oc, Half)
                        THEN miners + 1 ELSE miners
           /\ hosts_db' = Append(hosts_db, HostRecord(r))
    /\ nresults' = nresults + 1
    /\ UNCHANGED <<miner_ports, scan_record>>

\* after the loop: update_scan_stats(miners_detected = miners) and
\* update_scan_status("completed")
CliCompleted ==
    /\ scan_record.status = "running"
    /\ scan_record' = [status |-> "completed", miners_detected |-> miners]
    /\ UNCHANGED <<miner_ports, miners, hosts_db, result, rule_matches,
                   overall_confidence, nresults>>

\* get_miner_hosts(scan_id): the rows with is_miner_detected = 1
GetMinerHosts == SelectSeq(hosts_db, LAMBDA h : h.is_miner_detected)

\* the scan command after update_scan_status(scan_id, "running"), under
\* either configuration
InitCli ==
    /\ Constructed
    /\ ConfidenceIdle
    /\ miner_ports \in MinerPortConfigs
    /\ miners = 0
    /\ hosts_db = <<>>
    /\ scan_record = [NewScanRecord EXCEPT !.status = "running"]
    /\ result = NewHostScanResult(<<>>)
    /\ rule_matches = <<>>
    /\ overall_confidence = Ratio(0, 1)
    /\ nresults = 0
    /\ IPManagerConstructed
    /\ NoImport

NextCli ==
    \/ \E sr \in OpenPortLists : CliResult(sr) /\ CliOnly
    \/ CliCompleted /\ CliOnly

SpecCli == InitCli /\ [][NextCli]_vars

\* ====================================================================
\* IPManager: CIDR, range and list input
\* ====================================================================

\* a step of the IPManager leaves the other parts as they are
AddrOnly == UNCHANGED <<geoVars, scanVars, ruleVars, confVars, cliVars, importVars>>

\* an input string "a.b.c.d/p", cut at the dots and slashes: the numbers
\* between the dots, and the numbers after each slash
Token(octets, prefix) == [octets |-> octets, prefix |-> prefix]

\* ipaddress.IPv4Address(item): four numbers of 0 .. 255 and no slash, else
\* ValueError; value is the address as an integer
IPv4Address(item) ==
    IF /\ item.prefix = <<>>
       /\ Len(item.octets) = 4
       /\ \A i \in 1 .. 4 : item.octets[i] \in 0 .. 255
    THEN [ok |-> TRUE,
          value |-> item.octets[1] * 2^24 + item.octets[2] * 2^16
                      + item.octets[3] * 2^8 + item.octets[4]]
    ELSE [ok |-> FALSE, value |-> 0]

\* ipaddress.IPv4Network(item, strict=False): an address and at most one
\* prefix length of 0 .. 32 (32 without a slash); host bits are cleared
IPv4Network(item) ==
    LET address == IPv4Address(Token(item.octets, <<>>))
        prefixlen == IF item.prefix = <<>> THEN 32 ELSE item.prefix[1]
    IN  IF address.ok /\ Len(item.prefix) <= 1 /\ prefixlen \in 0 .. 32
        THEN [ok |-> TRUE,
              network_address |->
                  address.value - (address.value % 2^(32 - prefixlen)),
              prefixlen |-> prefixlen]
        ELSE [ok |-> FALSE, network_address |-> 0, prefixlen |-> 0]

\* network.broadcast_address
Broadcast(network) ==
    network.network_address + 2^(32 - network.prefixlen) - 1

\* the addresses first .. last in ascending order
Ascend(first, last) ==
    [i \in 1 .. (IF last >= first THEN last - first + 1 ELSE 0) |->
        first + i - 1]

\* every address of the network, both ends included
AllAddresses(network) == Ascend(network.network_address, Broadcast(network))

\* network.hosts(): the addresses between network and broadcast address; a
\* /31 has both of its addresses, a /32 its one
NetworkHosts(network) ==
    IF network.prefixlen >= 31
    THEN Ascend(network.network_address, Broadcast(network))
    ELSE Ascend(network.network_address + 1, Broadcast(network) - 1)

\* `ip in network`
InNetwork(ip, network) ==
    network.network_address <= ip /\ ip <= Broadcast(network)

\* is_private_ip, for the addresses below 128.0.0.0 the model uses:
\* 0.0.0.0/8, 10.0.0.0/8 and 127.0.0.0/8
IsPrivateIp(ip) == ip \div 2^24 \in {0, 10, 127}

\* _should_exclude(ip)
ShouldExclude(ip) ==
    \/ exclude_private /\ IsPrivateIp(ip)
    \/ \E network \in excluded_networks : InNetwork(ip, network)

\* `if not self._should_exclude(host)`
Included(ip) == ~ShouldExclude(ip)

\* sorted(list(ips))
RECURSIVE Sorted(_)
Sorted(S) ==
    IF S = {} THEN <<>>
    ELSE LET least == CHOOSE x \in S : \A y \in S : x <= y
         IN  <<least>> \o Sorted(S \ {least})

\* the set of the entries of a list
Range(q) == {q[i] : i \in 1 .. Len(q)}

Returns(value) == [raised |-> FALSE, named |-> <<>>, value |-> value]

\* raise ValueError(f"...{named}...")
Raises(named) == [raised |-> TRUE, named |-> named, value |-> <<>>]

\* ---- the input strings of the model
EmptyItem == Token(<<>>, <<>>)

SingleItems ==
    { Token(<<10, 0, 0, 1>>, <<>>), Token(<<8, 8, 8, 2>>, <<>>),
      Token(<<10, 0, 0, 256>>, <<>>), Token(<<10, 0, 0>>, <<>>) }

\* the ends of the ranges handed to generate_ip_range
RangeItems ==
    { Token(<<10, 0, 0, 1>>, <<>>), Token(<<10, 0, 0, 3>>, <<>>),
      Token(<<10, 0, 0, 256>>, <<>>), Token(<<10, 0, 0, 0>>, <<30>>) }

CidrItems ==
    { Token(<<10, 0, 0, 0>>, <<30>>), Token(<<10, 0, 0, 5>>, <<30>>),
      Token(<<8, 8, 8, 0>>, <<29>>), Token(<<8, 8, 8, 8>>, <<31>>),
      Token(<<10, 0, 0, 0>>, <<33>>), Token(<<10, 0, 0, 0>>, <<30, 1>>) }

ListItems ==
    { EmptyItem, Token(<<10, 0, 0, 1>>, <<>>), Token(<<8, 8, 8, 2>>, <<>>),
      Token(<<10, 0, 0, 256>>, <<>>), Token(<<10, 0, 0, 0>>, <<30>>),
      Token(<<10, 0, 0, 0>>, <<33>>) }

ExcludedItems ==
    { Token(<<10, 0, 0, 0>>, <<31>>), Token(<<8, 8, 8, 4>>, <<30>>),
      Token(<<8, 8, 8, 0>>, <<33>>) }

\* ---- the methods
\* exclude_private(exclude)
ExcludePrivate(exclude) ==
    /\ exclude_private # exclude
    /\ exclude_private' = exclude
    /\ UNCHANGED <<excluded_networks, addr_call, addr_out, generator>>

\* add_excluded_network(cidr): an invalid cidr is logged and left out
AddExcludedNetwork(cidr) ==
    /\ LET network == IPv4Network(cidr)
       IN  excluded_networks' =
              IF network.ok
              THEN excluded_networks \cup
                     {[network_address |-> network.network_address,
                       prefixlen |-> network.prefixlen]}
              ELSE excluded_networks
    /\ excluded_networks' # excluded_networks
    /\ UNCHANGED <<exclude_private, addr_call, addr_out, generator>>

\* parse_cidr(cidr): the IPRangeInfo, or ValueError naming cidr
ParseCidr(cidr) ==
    /\ addr_call' = [op |-> "parse_cidr", input |-> <<cidr>>]
    /\ LET network == IPv4Network(cidr)
           hosts == NetworkHosts(network)
       IN  addr_out' =
              IF network.ok
              THEN Returns([total_hosts |-> Len(hosts),
                            first_ip |-> IF hosts # <<>> THEN hosts[1]
                                         ELSE network.network_address,
                            last_ip |-> IF hosts # <<>> THEN hosts[Len(hosts)]
                                        ELSE Broadcast(network),
                            is_private |->
                                IsPrivateIp(network.network_address)])
              ELSE Raises(<<cidr>>)
    /\ generator' = "none"
    /\ UNCHANGED <<exclude_private, excluded_networks>>

\* the addresses one item of parse_ip_list adds; an item that does not parse
\* is logged and adds nothing
ItemAddresses(item) ==
    IF item = EmptyItem THEN {}
    ELSE IF item.prefix # <<>>
    THEN LET network == IPv4Network(item)
         IN  IF network.ok
             THEN {ip \in Range(NetworkHosts(network)) : Included(ip)}
             ELSE {}
    ELSE LET ip == IPv4Address(item)
         IN  IF ip.ok /\ Included(ip.value) THEN {ip.value} ELSE {}

\* parse_ip_list(ip_list), ip_list split at the commas
ParseIpList(items) ==
    /\ addr_call' = [op |-> "parse_ip_list", input |-> items]
    /\ addr_out' =
          Returns(Sorted(UNION {ItemAddresses(items[i]) : i \in 1 .. Len(items)}))
    /\ generator' = "none"
    /\ UNCHANGED <<exclude_private, excluded_networks>>

\* generate_from_cidr(cidr) / generate_ip_range(start_ip, end_ip): the call
\* makes the generator and runs none of its lines
Generate(op, input) ==
    /\ addr_call' = [op |-> op, input |-> input]
    /\ addr_out' = NoOutcome
    /\ generator' = "created"
    /\ UNCHANGED <<exclude_private, excluded_networks>>

\* the body of generate_from_cidr, run to its end
FromCidr(cidr) ==
    LET network == IPv4Network(cidr)
    IN  IF network.ok
        THEN Returns(SelectSeq(NetworkHosts(network), Included))
        ELSE Raises(<<cidr>>)

\* the body of generate_ip_range, run to its end
IpRange(start_ip, end_ip) ==
    LET start == IPv4Address(start_ip)
        end == IPv4Address(end_ip)
    IN  IF start.ok /\ end.ok /\ start.value <= end.value
        THEN Returns(SelectSeq(Ascend(start.value, end.value), Included))
        ELSE Raises(<<start_ip, end_ip>>)

\* list(generator): the caller iterates over the generator
Iterate ==
    /\ generator = "created"
    /\ generator' = "exhausted"
    /\ addr_out' = IF addr_call.op = "generate_from_cidr"
                   THEN FromCidr(addr_call.input[1])
                   ELSE IpRange(addr_call.input[1], addr_call.input[2])
    /\ UNCHANGED <<exclude_private, excluded_networks, addr_call>>

InitAddr ==
    /\ Constructed
    /\ ConfidenceIdle
    /\ CliIdle
    /\ IPManagerConstructed
    /\ NoImport

NextAddr ==
    \/ \E exclude \in BOOLEAN : ExcludePrivate(exclude) /\ AddrOnly
    \/ \E cidr \in ExcludedItems : AddExcludedNetwork(cidr) /\ AddrOnly
    \/ \E cidr \in CidrItems \cup SingleItems : ParseCidr(cidr) /\ AddrOnly
    \/ \E items \in ListsUpTo(ListItems, MaxItems) :
          ParseIpList(items) /\ AddrOnly
    \/ \E cidr \in CidrItems \cup SingleItems :
          Generate("generate_from_cidr", <<cidr>>) /\ AddrOnly
    \/ \E start_ip \in RangeItems, end_ip \in RangeItems :
          Generate("generate_ip_range", <<start_ip, end_ip>>) /\ AddrOnly
    \/ Iterate /\ AddrOnly

SpecAddr == InitAddr /\ [][NextAddr]_vars

\* ====================================================================
\* DetectionRulesEngine.import_rules
\* ====================================================================

\* a call of import_rules leaves the other parts as they are
ImportOnly ==
    UNCHANGED <<geoVars, scanVars, confVars, cliVars, addrVars>>

\* an entry of the list under 'rules'
Entry(is_mapping, rule) == [is_mapping |-> is_mapping, rule |-> rule]

\* the entries of a file that holds the rules of ruleList
EntriesOf(ruleList) ==
    [i \in 1 .. Len(ruleList) |-> Entry(TRUE, ruleList[i])]

\* the rules files of the model
Documents ==
    { Document("missing", FALSE, <<>>),
      Document("unparsable", FALSE, <<>>),
      Document("empty", FALSE, <<>>),
      Document("mapping", FALSE, <<>>),
      Document("mapping", TRUE, <<>>),
      Document("mapping", TRUE, EntriesOf(DefaultRules)),
      Document("mapping", TRUE, EntriesOf(CustomRules)),
      Document("mapping", TRUE,
               [EntriesOf(CustomRules) EXCEPT ![2].is_mapping = FALSE]) }

IsMapping(entry) == entry.is_mapping

\* the loop of _parse_rules: an entry that is no mapping raises inside the
\* try and is logged; the others are appended
ParsedRules(entries) ==
    LET mappings == SelectSeq(entries, IsMapping)
    IN  [i \in 1 .. Len(mappings) |-> mappings[i].rule]

\* the rule set import_rules leaves behind: a missing or unparsable file
\* raises before _parse_rules; _parse_rules starts with self.rules = []
RulesAfterImport(doc, before) ==
    CASE doc.kind \in {"missing", "unparsable"} -> before
      [] doc.kind = "empty" -> <<>>
      [] doc.kind = "mapping" /\ ~doc.has_rules -> <<>>
      [] OTHER -> ParsedRules(doc.entries)

\* import_rules raises: FileNotFoundError, the error of yaml.safe_load, or
\* the TypeError of `"rules" not in None`
ImportRaises(doc) == doc.kind \in {"missing", "unparsable", "empty"}

\* import_rules(import_path) with the file doc at import_path
ImportRules(doc) ==
    /\ nimports < MaxImports
    /\ nimports' = nimports + 1
    /\ imported' = [doc |-> doc, raised |-> ImportRaises(doc)]
    /\ rules' = RulesAfterImport(doc, rules)
    /\ UNCHANGED <<scan_result, matches, nevals>>

NextImport ==
    \/ \E doc \in Documents : ImportRules(doc) /\ ImportOnly
    \/ \E i \in 1 .. 6 : SetEnabled(i, FALSE) /\ RulesOnly
    \/ \E i \in 1 .. 6 : SetEnabled(i, TRUE) /\ RulesOnly

SpecImport == InitRules /\ [][NextImport]_vars

\* ====================================================================
\* Properties of the geolocation pipeline
\* ====================================================================

\* helpers of the properties below -------------------------------------
RECURSIVE SumOver(_, _)
SumOver(f, S) ==
    IF S = {} THEN 0
    ELSE LET x == CHOOSE y \in S : TRUE IN f[x] + SumOver(f, S \ {x})

\* the geographic fields of a result equal those of a cache row or result
SameGeo(a, b) ==
    /\ a.country = b.country /\ a.region = b.region /\ a.city = b.city
    /\ a.latitude = b.latitude /\ a.longitude = b.longitude
    /\ a.isp = b.isp /\ a.org = b.org

\* this step is the entry of a lookup(ip), which either returned at once or
\* went on to acquire()
StartsLookup(ip) ==
    /\ nlook' = nlook + 1
    /\ \/ pc' = pc /\ res'.result.ip_address = ip
       \/ \E t \in Threads : pc[t] = "idle" /\ pc'[t] = "acquire" /\ lk'[t].ip = ip

\* ... and went on to acquire() without having read the cache
\* (use_cache False, or the cache disabled)
CacheSkipped ==
    \E t \in Threads :
        pc[t] = "idle" /\ pc'[t] = "acquire" /\ lk'[t].cache_read = "skipped"

\* ... and returned the cached row e as a success
CacheHit(e) ==
    /\ pc' = pc
    /\ res'.via = "cache"
    /\ res'.result.success
    /\ res'.result.error = ""
    /\ SameGeo(res'.result, e)

\* no token moved and no provider was asked in this step
LimiterUntouched ==
    /\ limiter' = limiter
    /\ consumed' = consumed
    /\ primaryQ' = primaryQ
    /\ fallbackQ' = fallbackQ

\* C1: every query to the primary provider is paid for by a token taken from
\* the bucket of its service: queries sent never exceed tokens consumed.
C1_QueriesWithinTokens ==
    \A s \in Services : primaryQ[s] <= consumed[s]

\* C2: acquire() never returns to lookup() without having consumed a token:
\* a lookup that is past its acquire() call holds a token.
C2_AcquireAlwaysConsumes ==
    \A t \in Threads : pc[t] \in {"wait", "sleep", "primary"} => lk[t].took

\* C3: 0 <= tokens <= capacity always, and the refill of an acquire attempt
\* sets tokens to min(capacity, tokens + elapsed * capacity / window) and
\* never lowers tokens.
C3_TokensInRange ==
    \A s \in Services :
        0 <= limiter[s].tokens /\ limiter[s].tokens <= Capacity * Window

C3_RefillStep ==
    \A t \in Threads :
        (pc[t] = "acq_refill" /\ pc'[t] = "acq_check") =>
            LET old == limiter[svc[t]]
                new == limiter'[svc[t]]
                sum == old.tokens + (now - old.last_update) * Capacity
            IN  /\ new.tokens = (IF sum < Capacity * Window THEN sum
                                 ELSE Capacity * Window)
                /\ new.tokens >= old.tokens
                /\ new.last_update >= old.last_update

C3_TokenBucketInvariant == []C3_TokensInRange /\ [][C3_RefillStep]_vars

\* C3 witness: a bucket that was drawn from and then partly refilled
C3_Witness ==
    \E s \in Services :
        /\ consumed[s] >= 1
        /\ limiter[s].last_update > created[s]
        /\ limiter[s].tokens > 0
        /\ limiter[s].tokens < Capacity * Window

\* C4: refill-check-consume is one critical section per bucket: two threads
\* are never inside it together, tokens never goes negative, and the calls
\* that obtained a token never exceed the initial tokens plus the refill of
\* the elapsed time.
InAcquire(t) == pc[t] \in {"acq_refill", "acq_check", "acq_take"}

C4_AtomicBucket ==
    /\ \A t \in Threads, u \in Threads :
          (t # u /\ svc[t] = svc[u]) => ~(InAcquire(t) /\ InAcquire(u))
    /\ \A s \in Services :
          /\ limiter[s].tokens >= 0
          /\ consumed[s] * Window + limiter[s].tokens
                <= Capacity * Window + (limiter[s].last_update - created[s]) * Capacity

\* C4 witness: one thread inside acquire() on a bucket whose last token is
\* there, another thread of the same service waiting for the lock
C4_Witness ==
    \E t \in Threads, u \in Threads :
        /\ t # u /\ svc[t] = svc[u]
        /\ pc[t] = "acq_take" /\ pc[u] = "acquire"
        /\ limiter[svc[t]].tokens < 2 * Window

\* C5: all callers of the process draw from one bucket: the tokens consumed
\* through all services together fit the initial tokens plus the refill of
\* one bucket.
C5_SingleSharedBucket ==
    SumOver(consumed, Services) * Window <= Capacity * Window + now * Capacity

\* C6: a lookup that reads the cache and finds a non-expired row returns that
\* row as a success, leaves the RateLimiter as it was and asks no provider.
C6_Step ==
    \A ip \in PublicIPs :
        ( /\ StartsLookup(ip)
          /\ cfg.cache_enabled
          /\ cache[ip].present
          /\ ~(now + cfg.tz > cache[ip].cached_at + cache[ip].ttl_hours) )
        => \/ CacheSkipped
           \/ CacheHit(cache[ip]) /\ LimiterUntouched /\ cache' = cache

C7_Step ==
    \A ip \in PublicIPs :
        ( /\ StartsLookup(ip)
          /\ cache[ip].present
          /\ cache[ip].cached_at + cache[ip].ttl_hours < now + cfg.tz )
        => /\ \E t \in Threads : pc[t] = "idle" /\ pc'[t] = "acquire"
           /\ res' = res
           /\ cache' = cache

C8_Step ==
    fallbackQ' # fallbackQ =>
        /\ fallbackQ' = fallbackQ + 1
        /\ cfg.ipinfo_token
        /\ \E t \in Threads :
              /\ pc[t] = "fallback" /\ pc'[t] = "idle"
              /\ lk[t].primary = "failed"
        /\ limiter' = limiter
        /\ consumed' = consumed
        /\ primaryQ' = primaryQ

C8_FallbackAfterPrimary == [][C8_Step]_vars

\* C8 witness: a lookup answered by the fallback provider
C8_Witness ==
    /\ res.via = "fallback"
    /\ fallbackQ >= 1
    /\ \E s \in Services : primaryQ[s] >= 1

\* C9: after a lookup of ip succeeded through a provider, a following lookup
\* of ip that reads the cache within the TTL of the row written is a hit and
\* returns the same geographic fields.
C9_Step ==
    \A ip \in PublicIPs :
        ( /\ StartsLookup(ip)
          /\ cfg.cache_enabled
          /\ res.via \in {"primary", "fallback"}
          /\ res.result.ip_address = ip
          /\ cache[ip].present
          /\ now < cache[ip].cached_at + CacheTtl )
        => \/ CacheSkipped
           \/ CacheHit(res.result)

C9_CacheRoundTrip == [][C9_Step]_vars

\* C10 as stated: a lookup whose providers all failed returns a failure whose
\* error text is the last error the provider chain reported.
C10_LastErrorReported ==
    res.via = "failed" =>
        /\ ~res.result.success
        /\ res.result.error = res.last_err

\* C10 as amended: a lookup whose providers all failed returns a failure
\* (success false) whose error text is "All geolocation providers failed",
\* whatever error the providers reported; a lookup returns a success only
\* with a cached row or a provider's answer.
C10_FailureReported ==
    /\ res.via = "failed" =>
          /\ ~res.result.success
          /\ res.result.error = "All geolocation providers failed"
          /\ res.last_err # ""
    /\ res.result.success <=> res.via \in {"cache", "primary", "fallback"}

\* C10 witness: both providers failed, the fallback last, with a parse error
C10_Witness ==
    /\ res.via = "failed"
    /\ cfg.ipinfo_token
    /\ res.last_err = "Parse error"
    /\ res.result.error = "All geolocation providers failed"

\* C11: a lookup of a known local address (127.0.0.1, localhost, 0.0.0.0)
\* returns at once a failure that names the local address, whatever the cache
\* holds and whatever use_cache is: no cache row is read into the result, no
\* token is taken, no provider is asked, and the lookup never enters
\* acquire().
C11_Step ==
    \A ip \in LocalIPs \cap IPs :
        StartsLookup(ip) =>
            /\ pc' = pc
            /\ lk' = lk
            /\ res'.via = "local"
            /\ ~res'.result.success
            /\ res'.result.error = "Cannot geolocate local IP"
            /\ SameGeo(res'.result, EmptyResult(ip))
            /\ LimiterUntouched
            /\ cache' = cache

C11_LocalRejected == [][C11_Step]_vars

\* C11 witness: a local address rejected by a service whose cache is enabled
\* and holds a row, after its bucket was drawn from
C11_Witness ==
    /\ res.via = "local"
    /\ res.result.ip_address \in LocalIPs
    /\ ~res.result.success
    /\ cfg.cache_enabled
    /\ \E ip \in PublicIPs : cache[ip].present
    /\ \E s \in Services : consumed[s] >= 1

\* ====================================================================
\* Properties of the scanner
\* ====================================================================

\* helpers of the properties below -------------------------------------
\* host h is between taking and giving back its semaphore slot
InProgress(h) == tasks[h].st \in {"ping", "ports"}

\* the task of host h is over and has a result
Finished(h) == tasks[h].st \in {"done", "consumed"}

\* the port probes of host h that are under way
InFlight(h) ==
    {i \in 1 .. Len(tasks[h].probes) : tasks[h].probes[i] = "inflight"}

\* r is one of the elements of the sequence q
InSeq(r, q) == \E i \in 1 .. Len(q) : q[i] = r

\* a list of ports in ascending order
Ascending(q) == \A i \in 1 .. Len(q), j \in 1 .. Len(q) : i < j => q[i] < q[j]

\* C12: during scan_range the host scans in progress never exceed the
\* concurrency of the configuration, and the free slots are exactly the
\* slots not held by a scan in progress (a host that ended, with an error
\* or without, gave back its own slot and no other).
C12_GlobalConcurrency ==
    /\ Cardinality({h \in Hosts : InProgress(h)}) <= Concurrency
    /\ semaphore = Concurrency - Cardinality({h \in Hosts : InProgress(h)})

\* C12 witness: a host whose scan ended with an error, and the next host
\* scanning with no slot left
C12_Witness ==
    \E h \in Hosts, g \in Hosts :
        /\ Finished(h) /\ tasks[h].result.scan_error = "error"
        /\ InProgress(g)
        /\ semaphore = 0

\* C13: a host that had not started scanning when cancel() was called is
\* never pinged or probed afterwards; if its task ends, it ends with the
\* placeholder result.
C13_NoScanAfterCancel ==
    \A h \in Hosts :
        tasks[h].at_cancel = "pending" =>
            /\ ~InProgress(h)
            /\ Finished(h) => tasks[h].result.scan_error = "Cancelled"

\* C14: a host scan that was in progress when cancel() was called returns a
\* result tagged as cancelled.
C14_RunningScanTagged ==
    \A h \in Hosts :
        (tasks[h].at_cancel = "running" /\ Finished(h)) =>
            tasks[h].result.scan_error = "Cancelled"

\* C15: the port probes of one host that are under way together never
\* exceed the per-host limit, however many ports were requested.
C15_PerHostSubLimit ==
    \A h \in Hosts : Cardinality(InFlight(h)) <= PerHostLimit

\* C16: with no cancellation requested scan_range never ends with an
\* exception and returns one result per address; the end of a host scan,
\* failed or not, writes that host's own result only: the error text, or the
\* open ports found, and the reachability the ping gave (no open port and no
\* ping answer: reachable false and an empty port list).
C16_AllReturned ==
    /\ scan_pc # "raised"
    /\ \A h \in Hosts : tasks[h].st # "raised"
    /\ (scan_pc = "returned" /\ ~worker_cancelled) =>
          /\ Len(results) = NumHosts
          /\ \A h \in Hosts :
                Cardinality({i \in 1 .. Len(results) : results[i].ip_address = h}) = 1

C16_Step ==
    \A h \in Hosts :
        (tasks[h].st = "ports" /\ tasks'[h].st # "ports") =>
            /\ tasks'[h].st = "done"
            /\ tasks'[h].result.ip_address = h
            /\ tasks'[h].result.is_responsive = tasks[h].result.is_responsive
            /\ \/ tasks'[h].result.scan_error # ""
               \/ tasks'[h].result.open_ports = PortResults(ports, tasks[h].probes)
            /\ (\A i \in 1 .. Len(ports) : tasks[h].probes[i] # "open") =>
                  tasks'[h].result.open_ports = <<>>
            /\ \A g \in Hosts \ {h} : tasks'[g] = tasks[g]
            /\ results' = results
            /\ scan_pc' = scan_pc

C16_HostFailureContained == []C16_AllReturned /\ [][C16_Step]_vars

\* C16 witness: a scan that returned all results, one with a host error and
\* one of an unreachable host
C16_Witness ==
    /\ scan_pc = "returned"
    /\ ~worker_cancelled
    /\ Len(results) = NumHosts
    /\ \E i \in 1 .. Len(results), j \in 1 .. Len(results) :
          /\ results[i].scan_error = "error"
          /\ results[j].scan_error = ""
          /\ ~results[j].is_responsive
          /\ results[j].open_ports = <<>>

\* C17: once the worker is done, every host result that was complete when
\* cancel() was called has been returned by scan_range and saved and
\* emitted as a host record.
C17_PartialResultsDelivered ==
    worker_pc = "done" =>
        \A h \in Hosts :
            (tasks[h].at_cancel = "finished" /\ Finished(h)) =>
                /\ InSeq(tasks[h].result, results)
                /\ InSeq(tasks[h].result, saved)

\* C18: the open ports of every host result are in ascending order of port
\* number, whatever the order of the requested ports.
C18_PortsSorted ==
    /\ \A h \in Hosts : Ascending(tasks[h].result.open_ports)
    /\ \A i \in 1 .. Len(results) : Ascending(results[i].open_ports)

\* ====================================================================
\* Properties of the detection rules engine
\* ====================================================================

\* helpers of the properties below -------------------------------------
\* this step is a call of evaluate()
Evaluates == nevals' = nevals + 1

\* the rule names in alphabetical order
NamesInOrder ==
    <<"gpu_miner_pattern", "high_bandwidth_pattern", "multiple_mining_ports",
      "pattern_in_caps", "stratum_pool_detection", "suspicious_mining_port",
      "two_combinations", "two_ports", "web_mining_detection">>

NameRank(name) == CHOOSE k \in 1 .. Len(NamesInOrder) : NamesInOrder[k] = name

\* the rule of the list that carries this name
RuleNamed(name) == rules[CHOOSE i \in 1 .. Len(rules) : rules[i].name = name]

\* pattern occurs in banner, letter case disregarded
OccursIgnoringCase(pattern, banner) ==
    \E k \in 0 .. Len(banner) :
        /\ k + Len(pattern) <= Len(banner)
        /\ \A i \in 1 .. Len(pattern) : LowerOf(banner[k + i]) = LowerOf(pattern[i])

\* the three condition types as the rule file format defines them, over the
\* entries of a scan result
PortSetHolds(c, sr) ==
    LET n == Cardinality({q \in c.ports : \E i \in 1 .. Len(sr) : sr[i].port = q})
        lo == IF "min_ports" \in c.keys THEN c.min_ports ELSE 1
        hi == IF "max_ports" \in c.keys THEN c.max_ports ELSE Cardinality(c.ports)
    IN  "ports" \in c.keys /\ lo <= n /\ n <= hi

BannerHolds(c, sr) ==
    /\ "banner_patterns" \in c.keys
    /\ \E i \in 1 .. Len(sr), pattern \in c.banner_patterns :
          OccursIgnoringCase(pattern, sr[i].banner)

CombinationHolds(c, sr) ==
    LET n == Cardinality({combo \in c.port_combinations :
                            \A q \in combo : \E i \in 1 .. Len(sr) : sr[i].port = q})
        lo == IF "min_combinations" \in c.keys THEN c.min_combinations ELSE 1
    IN  "port_combinations" \in c.keys /\ n >= lo

\* C19: evaluate() returns matches of enabled rules only, in descending
\* order of rule priority, rules of equal priority in the order of their
\* names.
C19_Step ==
    Evaluates =>
        /\ \A i \in 1 .. Len(matches') : RuleNamed(matches'[i].rule_name).enabled
        /\ \A i \in 1 .. Len(matches'), j \in 1 .. Len(matches') :
              i < j =>
                 LET a == RuleNamed(matches'[i].rule_name)
                     b == RuleNamed(matches'[j].rule_name)
                 IN  \/ a.priority > b.priority
                     \/ /\ a.priority = b.priority
                        /\ NameRank(a.name) < NameRank(b.name)

C19_PriorityThenName == [][C19_Step]_vars

\* C20: evaluate() reports an enabled rule as matched exactly when one of
\* its port-set, banner or port-combination conditions holds, and then with
\* the rule's own confidence score.
C20_Step ==
    Evaluates =>
        \A k \in 1 .. Len(rules) :
            rules[k].enabled =>
                LET r == rules[k]
                    holds == \/ PortSetHolds(r.conditions, scan_result')
                             \/ BannerHolds(r.conditions, scan_result')
                             \/ CombinationHolds(r.conditions, scan_result')
                    found == {i \in 1 .. Len(matches') : matches'[i].rule_name = r.name}
                IN  /\ holds <=> found # {}
                    /\ \A i \in found :
                          /\ matches'[i].matched
                          /\ matches'[i].confidence = r.confidence_score

C20_AnyConditionMatches == [][C20_Step]_vars

\* C20 witness: a rule with a port condition and a banner condition matched
\* by a banner in capitals alone, none of its ports being open
C20_Witness ==
    /\ nevals >= 1
    /\ \E i \in 1 .. Len(matches) :
          /\ matches[i].rule_name = "stratum_pool_detection"
          /\ matches[i].matched_conditions = {"banner_patterns"}
          /\ matches[i].confidence = 85

\* C21: evaluated against the default rules, all enabled, a host whose open
\* ports are exactly 80 and 443 and whose banners contain none of the rules'
\* patterns matches no rule.
C21_Step ==
    ( /\ Evaluates
      /\ rules = DefaultRules
      /\ OpenPorts(scan_result') = {80, 443}
      /\ \A k \in 1 .. Len(rules) : ~BannerHolds(rules[k].conditions, scan_result') )
    => matches' = <<>>

C21_WebPortsMatchNothing == [][C21_Step]_vars

\* C22: calculate_overall_confidence returns exactly 0 for an empty match
\* list; for a list whose confidences sum to more than 0 it returns
\* (sum of confidence squared) / (sum of confidence), or 1 where that
\* exceeds 1; with every confidence in [0, 1] the result is at most 1.
C22_OverallConfidence ==
    LET cs == conf_matches
        sq == SumSeq([i \in 1 .. Len(cs) |-> cs[i] * cs[i]])
        su == SumSeq(cs)
    IN  /\ overall.den > 0
        /\ cs = <<>> => overall.num = 0
        /\ su > 0 =>
              IF sq > 100 * su
              THEN overall.num = overall.den
              ELSE overall.num * 100 * su = sq * overall.den
        /\ (\A i \in 1 .. Len(cs) : 0 <= cs[i] /\ cs[i] <= 100) =>
              overall.num <= overall.den

\* C22 witness: confidences 0.3 and 0.7 give (0.09 + 0.49) / 1.0 = 0.58
C22_Witness ==
    /\ conf_matches = <<30, 70>>
    /\ overall.num * 100 = 58 * overall.den

\* a round of the scan command's result loop
CliRound == nresults' = nresults + 1

\* C23: a host for which any rule matched, or whose aggregate confidence
\* exceeds 0.5, is counted in the scan's miner count.
C23_Step ==
    ( /\ CliRound
      /\ rule_matches' # <<>> \/ Less(Half, overall_confidence') )
    => miners' = miners + 1

C26_ConfidenceInUnitInterval ==
    /\ ~Less(result.confidence_score, Ratio(0, 1))
    /\ ~Less(Ratio(1, 1), result.confidence_score)
    /\ \A i \in 1 .. Len(hosts_db) :
          /\ ~Less(hosts_db[i].confidence_score, Ratio(0, 1))
          /\ ~Less(Ratio(1, 1), hosts_db[i].confidence_score)

\* C27: the port heuristic flags a host exactly when one of its open ports is
\* a configured mining port, and a flagged host whose mining ports are all
\* stratum ports gets miner type 'stratum'.
C27_PortHeuristic ==
    nresults > 0 =>
        LET found == OpenPorts(result.open_ports) \cap AllPorts(miner_ports)
        IN  /\ result.is_miner_detected <=> found # {}
            /\ (found # {} /\ found \subseteq miner_ports.stratum_ports)
                  => result.miner_type = "stratum"

\* C30: once the scan is 'completed', its miners_detected equals the number
\* of rows get_miner_hosts returns for it.
C30_MinerCountMatchesRows ==
    scan_record.status = "completed" =>
        scan_record.miners_detected = Len(GetMinerHosts)

\* the caller runs the generator to its end
Iterates == generator = "created" /\ generator' = "exhausted"

\* the addresses strictly between network and broadcast address of a
\* network with a prefix of at most 30, in ascending order
HostAddresses(network) ==
    [i \in 1 .. (2^(32 - network.prefixlen) - 2) |->
        network.network_address + i]

\* C24 as stated: every valid CIDR with a prefix of at most 30 expands to
\* exactly its 2^(32-prefix) - 2 host addresses, in ascending order, network
\* and broadcast address left out.
C24_AllHostsStep ==
    LET network == IPv4Network(addr_call.input[1])
    IN  ( /\ Iterates
          /\ addr_call.op = "generate_from_cidr"
          /\ network.ok
          /\ network.prefixlen <= 30 )
        => /\ ~addr_out'.raised
           /\ addr_out'.value = HostAddresses(network)

C24_ExactlyAllHosts == [][C24_AllHostsStep]_vars

\* C24: a valid CIDR with a prefix of at most 30 expands, in ascending order
\* and without repetition, to its host addresses (network and broadcast
\* address left out) less the addresses the manager excludes; with no
\* exclusion set these are exactly 2^(32-prefix) - 2 addresses.
C24_Step ==
    LET network == IPv4Network(addr_call.input[1])
        ips == addr_out'.value
    IN  ( /\ Iterates
          /\ addr_call.op = "generate_from_cidr"
          /\ network.ok
          /\ network.prefixlen <= 30 )
        => /\ ~addr_out'.raised
           /\ Ascending(ips)
           /\ Range(ips) = {ip \in Range(HostAddresses(network)) :
                              ~ShouldExclude(ip)}
           /\ (~exclude_private /\ excluded_networks = {})
                 => Len(ips) = 2^(32 - network.prefixlen) - 2

C24_HostsLessExcluded == [][C24_Step]_vars

\* C24 witness: 10.0.0.0/30 expanded to 10.0.0.1 and 10.0.0.2
C24_Witness ==
    /\ generator = "exhausted"
    /\ addr_call = [op |-> "generate_from_cidr",
                    input |-> <<Token(<<10, 0, 0, 0>>, <<30>>)>>]
    /\ addr_out = Returns(<<167772161, 167772162>>)

\* the string is no address or network its method accepts
Malformed(op, item) ==
    CASE op \in {"parse_cidr", "generate_from_cidr"} -> ~IPv4Network(item).ok
      [] op = "generate_ip_range" -> ~IPv4Address(item).ok
      [] OTHER -> /\ item # EmptyItem
                  /\ IF item.prefix # <<>> THEN ~IPv4Network(item).ok
                     ELSE ~IPv4Address(item).ok

\* the call has returned, raised, or its generator was run
Answered ==
    \/ addr_call.op \in {"parse_cidr", "parse_ip_list"}
    \/ generator = "exhausted"

\* C25: a call whose input holds a malformed string ends in an error that
\* names a malformed string of the input; none is skipped.
C25_MalformedRejected ==
    ( /\ Answered
      /\ \E i \in 1 .. Len(addr_call.input) :
            Malformed(addr_call.op, addr_call.input[i]) )
    => /\ addr_out.raised
       /\ \E j \in 1 .. Len(addr_out.named) :
             Malformed(addr_call.op, addr_out.named[j])

\* C28: a ScanWorker.run on which cancel() was requested before it recorded
\* its final status ends with the status 'cancelled'.
C28_CancelledRunEndsCancelled ==
    (worker_pc = "done" /\ worker_cancelled) => scan_status = "cancelled"

\* a call of import_rules
Imports == nimports' = nimports + 1

\* the file holds a list of rules under 'rules'
HasRuleList(doc) == doc.kind = "mapping" /\ doc.has_rules

\* C29: import_rules either replaces the rule set by the rules of the file
\* or, when it raises or the file holds no rule list, leaves the rule set
\* as it was.
C29_Step ==
    Imports =>
        IF HasRuleList(imported'.doc) /\ ~imported'.raised
        THEN rules' = ParsedRules(imported'.doc.entries)
        ELSE rules' = rules

C29_ImportAllOrNothing == [][C29_Step]_vars

====
